---------------------------- MODULE Spec2Model ----------------------------
(***************************************************************************)
(* A model of the capture / face-detection pipeline of src/script.js and   *)
(* of the voice commands of src/unnamed/part_000 that drive it.            *)
(*                                                                         *)
(* Rasters.  A frame is a 160x120 raster.  The model draws its frames from *)
(* block images: the raster is cut in square cells of CellSize pixels and  *)
(* every pixel of a cell has the same palette colour.  All pixel loops of  *)
(* the source are evaluated on these rasters pixel for pixel (a loop that  *)
(* counts pixels of a rectangle is evaluated cell by cell, which gives the *)
(* same count).                                                            *)
(*                                                                         *)
(* Numbers.  JavaScript numbers are doubles.  Ratios of pixel counts are   *)
(* compared exactly (cross multiplication); the weighted score of          *)
(* scoreFaceRegion is evaluated in fixed point, one unit = 1/100000.       *)
(* Coordinates reported by the external detector are carried in half       *)
(* pixels so that Math.round has something to round.                       *)
(***************************************************************************)
EXTENDS Integers, Sequences, FiniteSets, TLC

(***************************************************************************)
(* Program constants                                                       *)
(***************************************************************************)
ImageWidth == 160
ImageHeight == 120
minFaceSize == 30
maxFaceSize == 100
maxHistoryLength == 5
searchRadius == 25
minScanWidth == 35
maxScanWidth == 80
minScanHeight == 35
maxScanHeight == 80

(***************************************************************************)
(* Arithmetic helpers (Math.max, Math.min, Math.abs, Math.round)           *)
(***************************************************************************)
Max(a, b) == IF a >= b THEN a ELSE b

Min(a, b) == IF a <= b THEN a ELSE b

Abs(a) == IF a >= 0 THEN a ELSE -a

\* Math.round(num/den) for den > 0: floor(num/den + 1/2)
RoundDiv(num, den) == (2 * num + den) \div (2 * den)

\* floor of the square root, by bisection
RECURSIVE SqrtBetween(_, _, _)
SqrtBetween(n, lo, hi) ==
    IF lo >= hi THEN lo
    ELSE LET mid == (lo + hi + 1) \div 2
         IN  IF mid * mid <= n THEN SqrtBetween(n, mid, hi)
                               ELSE SqrtBetween(n, lo, mid - 1)

ISqrt(n) == SqrtBetween(n, 0, Min(n, 46340))

(***************************************************************************)
(* Rasters                                                                 *)
(***************************************************************************)
CellSize == ImageHeight \div 3

GridCols == ImageWidth \div CellSize

GridRows == ImageHeight \div CellSize

\* palette colour 1: a blue-grey background; 2: a skin colour; 3: the black of
\* a graphics nothing was drawn on
Palette ==
    <<[r |-> 30, g |-> 60, b |-> 90],
      [r |-> 200, g |-> 140, b |-> 100],
      [r |-> 0, g |-> 0, b |-> 0]>>

\* the colour of pixel (x, y) of a block image
PixelAt(img, x, y) == Palette[img[(y \div CellSize) * GridCols + (x \div CellSize) + 1]]

\* the number of integers of [a, b) that lie in [c, d)
Overlap(a, b, c, d) == Max(0, Min(b, d) - Max(a, c))

(***************************************************************************)
(* FaceProcessor: boxes                                                    *)
(***************************************************************************)
\* JavaScript null / undefined for a box
NullBox == [x |-> -1, y |-> -1, width |-> -1, height |-> -1]

Box(bx, by, bw, bh) == [x |-> bx, y |-> by, width |-> bw, height |-> bh]

\* a variant of isValidFaceSize with the bounds excluded
isValidFaceSizeExclusive(face) ==
    /\ face # NullBox
    /\ face.width > minFaceSize
    /\ face.height > minFaceSize
    /\ face.width < maxFaceSize
    /\ face.height < maxFaceSize

\* face && ...: the truth value of what the function returns
isValidFaceSize(face) ==
    /\ face # NullBox
    /\ face.width >= minFaceSize
    /\ face.height >= minFaceSize
    /\ face.width <= maxFaceSize
    /\ face.height <= maxFaceSize

isSkinTone(r, g, b) ==
    \/ /\ r > 95 /\ g > 40 /\ b > 20
       /\ Max(r, Max(g, b)) - Min(r, Min(g, b)) > 15
       /\ Abs(r - g) > 15 /\ r > g /\ r > b
    \/ /\ r > 80 /\ g > 50 /\ b > 30
       /\ r > g /\ g > b /\ r - g > 10
    \/ /\ r > 50 /\ g > 30 /\ b > 15
       /\ r > g /\ g >= b /\ r - b > 15
    \/ /\ r > 60 /\ g > 40 /\ b > 20
       /\ r > b /\ g > b /\ (r - b) > 10 /\ (g - b) > 5

\* isSkinTone on each palette colour, evaluated once
PaletteIsSkin == [k \in DOMAIN Palette |-> isSkinTone(Palette[k].r, Palette[k].g, Palette[k].b)]

\* the pixels of the rectangle [x, x+w) x [y, y+h), clipped to the raster, that
\* isSkinTone accepts (the double loop of detectBySkinTone and of
\* calculateSkinDensity), summed over the cells c, c-1, ..., 0
RECURSIVE SkinPixelsUpTo(_, _, _, _, _, _)
SkinPixelsUpTo(img, x, y, w, h, c) ==
    IF c < 0 THEN 0
    ELSE (IF PaletteIsSkin[img[c + 1]]
          THEN Overlap(x, Min(x + w, ImageWidth),
                       (c % GridCols) * CellSize, (c % GridCols) * CellSize + CellSize)
                 * Overlap(y, Min(y + h, ImageHeight),
                           (c \div GridCols) * CellSize,
                           (c \div GridCols) * CellSize + CellSize)
          ELSE 0)
         + SkinPixelsUpTo(img, x, y, w, h, c - 1)

SkinPixels(img, x, y, w, h) == SkinPixelsUpTo(img, x, y, w, h, GridCols * GridRows - 1)

\* totalPixels of the same loops
TotalPixels(x, y, w, h) ==
    Overlap(x, x + w, 0, ImageWidth) * Overlap(y, y + h, 0, ImageHeight)


\* F applied to the value of v, v being evaluated once
With(v, F(_)) == CHOOSE r \in {F(x) : x \in {v}} : TRUE

(***************************************************************************)
(* FaceProcessor: the heuristic strategies                                 *)
(***************************************************************************)
\* the five candidate regions of detectBySkinTone, as percentages of the frame
SkinRegions ==
    <<[fx |-> 10, fy |-> 10, fw |-> 40, fh |-> 40],
      [fx |-> 50, fy |-> 10, fw |-> 40, fh |-> 40],
      [fx |-> 20, fy |-> 15, fw |-> 60, fh |-> 60],
      [fx |-> 25, fy |-> 20, fw |-> 50, fh |-> 50],
      [fx |-> 30, fy |-> 25, fw |-> 40, fh |-> 40]>>

\* region i in pixels: Math.round(img.width * 0.1) and so on
SkinRegion(i) ==
    Box(RoundDiv(ImageWidth * SkinRegions[i].fx, 100),
        RoundDiv(ImageHeight * SkinRegions[i].fy, 100),
        RoundDiv(ImageWidth * SkinRegions[i].fw, 100),
        RoundDiv(ImageHeight * SkinRegions[i].fh, 100))

\* a variant of SkinRatioAccepts that takes every region with a skin pixel
SkinRatioAcceptsAny(count, total) == count > 0

\* the skin-pixel ratio of a region must exceed 0.12 = 12/100
SkinRatioAccepts(count, total) == count * 100 > 12 * total

\* one iteration of regions.forEach: acc carries bestRegion, maxSkinPixels and
\* maxSkinRatio (as the fraction num/den)
SkinStep(img, i, acc) ==
    LET reg == SkinRegion(i)
        count == SkinPixels(img, reg.x, reg.y, reg.width, reg.height)
        total == TotalPixels(reg.x, reg.y, reg.width, reg.height)
    IN  IF reg.x + reg.width > ImageWidth \/ reg.y + reg.height > ImageHeight
        THEN acc
        ELSE IF /\ total > 0
                /\ count > acc.pix
                /\ SkinRatioAccepts(count, total)
                /\ count * acc.den > acc.num * total
             THEN [best |-> reg, pix |-> count, num |-> count, den |-> total]
             ELSE acc

RECURSIVE SkinFold(_, _, _)
SkinFold(img, i, acc) ==
    IF i > Len(SkinRegions) THEN acc
    ELSE SkinFold(img, i + 1, SkinStep(img, i, acc))

detectBySkinTone(img) ==
    LET ValidOrNull(acc) ==
            IF acc.best # NullBox /\ isValidFaceSize(acc.best) THEN acc.best ELSE NullBox
    IN  With(SkinFold(img, 1, [best |-> NullBox, pix |-> 0, num |-> 0, den |-> 1]),
             ValidOrNull)

\* calculateSkinDensity as the fraction num/den (0/1 when the region is empty)
calculateSkinDensity(img, x, y, w, h) ==
    LET total == TotalPixels(x, y, w, h)
    IN  IF total > 0 THEN [num |-> SkinPixels(img, x, y, w, h), den |-> total]
                     ELSE [num |-> 0, den |-> 1]

\* a variant of MotionDensityAccepts that takes every placement with a skin
\* pixel
MotionDensityAcceptsAny(d) == d.num > 0

\* the skin density of a tracked placement must exceed 0.1
MotionDensityAccepts(d) == d.num * 10 > d.den

\* the offsets -25, -17, ..., 23 of the two loops of trackByMotion, numbered in
\* loop order
MotionOffsets == {-searchRadius + 8 * i : i \in 0..((2 * searchRadius) \div 8)}

\* the placements the loops of trackByMotion test (those inside the image) whose
\* skin density is above 0.1, each with its place in loop order
MotionCandidates(img, lastPos) ==
    {c \in {[order |-> (oy + searchRadius) * 100 + (ox + searchRadius),
             box |-> Box(Max(0, lastPos.x + ox), Max(0, lastPos.y + oy),
                         lastPos.width, lastPos.height),
             d |-> calculateSkinDensity(img, Max(0, lastPos.x + ox),
                                        Max(0, lastPos.y + oy),
                                        lastPos.width, lastPos.height)] :
               ox \in {o \in MotionOffsets :
                         Max(0, lastPos.x + o) + lastPos.width <= ImageWidth},
               oy \in {o \in MotionOffsets :
                         Max(0, lastPos.y + o) + lastPos.height <= ImageHeight}} :
        MotionDensityAccepts(c.d)}

\* bestPosition after the loops: the first placement in loop order among those of
\* the greatest density (a later one replaces it only with a strictly greater
\* density), null when there is none
MotionBest(cands) ==
    LET first == {c \in cands :
                     \A o \in cands :
                         \/ c.d.num * o.d.den > o.d.num * c.d.den
                         \/ c.d.num * o.d.den = o.d.num * c.d.den /\ c.order <= o.order}
    IN  IF first = {} THEN NullBox ELSE (CHOOSE c \in first : TRUE).box

trackByMotion(img, lastPos) ==
    IF lastPos = NullBox THEN NullBox
    ELSE LET ValidOrNull(best) ==
                 IF best # NullBox /\ isValidFaceSize(best) THEN best ELSE NullBox
         IN  With(With(MotionCandidates(img, lastPos), MotionBest), ValidOrNull)

\* the pixels calculateColorVariation samples in each cell of the raster: every
\* stepSize-th column and row of the region
VariationSamples(x, y, w, h) ==
    LET stepSize == Max(1, RoundDiv(w, 10))
        cols(c, d) == Cardinality({i \in 0..((w - 1) \div stepSize) :
                         x + i * stepSize < ImageWidth /\ c <= x + i * stepSize
                           /\ x + i * stepSize < d})
        rows(c, d) == Cardinality({j \in 0..((h - 1) \div stepSize) :
                         y + j * stepSize < ImageHeight /\ c <= y + j * stepSize
                           /\ y + j * stepSize < d})
    IN  [c \in 0..(GridCols * GridRows - 1) |->
            cols((c % GridCols) * CellSize, (c % GridCols) * CellSize + CellSize)
              * rows((c \div GridCols) * CellSize, (c \div GridCols) * CellSize + CellSize)]

\* f[c] + f[c-1] + ... + f[0]
RECURSIVE SumUpTo(_, _)
SumUpTo(f, c) == IF c < 0 THEN 0 ELSE f[c] + SumUpTo(f, c - 1)

\* standardDeviation of one colour channel over the samples n, in units of
\* 1/1000: sqrt(mean of squares - square of mean)
standardDeviation(img, n, ch) ==
    LET last == GridCols * GridRows - 1
        Dev(count, s1, s2) ==
            IF count = 0 THEN 0
            ELSE (ISqrt(4 * (count * s2 - s1 * s1)) * 500) \div count
    IN  Dev(SumUpTo(n, last),
            SumUpTo([c \in 0..last |-> n[c] * Palette[img[c + 1]][ch]], last),
            SumUpTo([c \in 0..last |->
                        n[c] * Palette[img[c + 1]][ch] * Palette[img[c + 1]][ch]], last))

\* calculateColorVariation: Math.min(1.0, avgVariation / 40) in units of
\* 1/100000
calculateColorVariation(img, x, y, w, h) ==
    LET Variation(n) ==
            Min(100000, ((standardDeviation(img, n, "r") + standardDeviation(img, n, "g")
                            + standardDeviation(img, n, "b")) * 5) \div 6)
    IN  With(VariationSamples(x, y, w, h), Variation)

\* clamp to [0, 1] in units of 1/100000
Clamp01(v) == Max(0, Min(100000, v))

\* finalScore in units of 1/10000000
scoreFaceRegion(img, x, y, w, h) ==
    LET d == calculateSkinDensity(img, x, y, w, h)
        skinToneScore == (d.num * 100000) \div d.den
        positionScore ==
            Clamp01(100000 - (Abs(20 * y + 10 * h - 7 * ImageHeight) * 100000)
                               \div (7 * ImageHeight))
        variationScore == calculateColorVariation(img, x, y, w, h)
        sizeScore == Clamp01(100000 - (Abs(w + h - 100) * 100000) \div 100)
        aspectScore == Clamp01(100000 - (Abs(5 * w - 4 * h) * 100000) \div (4 * h))
    IN  skinToneScore * 40 + positionScore * 25 + variationScore * 15
          + sizeScore * 10 + aspectScore * 10

\* the scales 0.3, 0.4, ..., 0.7 of the scan loop, in percent
ScanScales == <<30, 40, 50, 60, 70>>

scanWidth(scale) ==
    RoundDiv(Max(minScanWidth * 100, Min(maxScanWidth * 100, ImageWidth * scale)), 100)

scanHeight(scale) ==
    RoundDiv(Max(minScanHeight * 100, Min(maxScanHeight * 100, ImageHeight * scale)), 100)

scanStepSize(scale) == Max(8, RoundDiv(scanWidth(scale) * 20, 100))

\* a variant of ScanAccepts with the acceptance threshold 0.5
ScanAcceptsAboveHalf(score) == score > 5000000

\* the acceptance threshold 0.15 of scanForFaceRegions in units of 1/10000000
ScanAccepts(score) == score > 1500000

\* the windows the three loops of scanForFaceRegions visit: scale index i,
\* row yi and column xi of the window grid of that scale
ScanWindows ==
    {[i |-> i, yi |-> yi, xi |-> xi] :
        i \in DOMAIN ScanScales,
        yi \in 0..(ImageHeight \div 8),
        xi \in 0..(ImageWidth \div 8)}

ScanWindowBox(w) ==
    Box(w.xi * scanStepSize(ScanScales[w.i]), w.yi * scanStepSize(ScanScales[w.i]),
        scanWidth(ScanScales[w.i]), scanHeight(ScanScales[w.i]))

\* the windows inside the image, each with its place in loop order (scale, then
\* y, then x), its box and its score
ScanScored(img) ==
    {[order |-> (w.i * 100 + w.yi) * 100 + w.xi,
      box |-> ScanWindowBox(w),
      score |-> With(ScanWindowBox(w),
                     LAMBDA b : scoreFaceRegion(img, b.x, b.y, b.width, b.height))] :
        w \in {v \in ScanWindows :
                 /\ ScanWindowBox(v).y <= ImageHeight - ScanWindowBox(v).height
                 /\ ScanWindowBox(v).x <= ImageWidth - ScanWindowBox(v).width}}

\* bestPosition and maxScore after the loops: the first window in loop order
\* among those of the greatest score; a later window replaces bestPosition only
\* with a strictly greater score, and maxScore starts at 0
ScanBest(scored) ==
    LET first == {t \in scored :
                     /\ t.score > 0
                     /\ \A s \in scored :
                          s.score < t.score \/ (s.score = t.score /\ t.order <= s.order)}
    IN  IF first = {} THEN [box |-> NullBox, score |-> 0]
        ELSE CHOOSE t \in first : TRUE

scanForFaceRegions(img) ==
    LET AcceptedOrNull(top) ==
            IF top.box # NullBox /\ ScanAccepts(top.score) THEN top.box ELSE NullBox
    IN  With(With(ScanScored(img), ScanBest), AcceptedOrNull)

getDefaultCenterFace ==
    LET width == RoundDiv(ImageWidth * 5, 10)
        height == RoundDiv(ImageHeight * 5, 10)
        x == RoundDiv(ImageWidth - width, 2)
        y == RoundDiv(ImageHeight - height, 2)
    IN  Box(Max(0, x), Max(0, y), Min(width, ImageWidth - x), Min(height, ImageHeight - y))


\* a variant of updateFaceHistory that drops the newest box when the history
\* is full
updateFaceHistoryDropNewest(history, lastPos, facePosition) ==
    IF facePosition # NullBox /\ isValidFaceSize(facePosition)
    THEN [history |-> IF Len(history) + 1 > maxHistoryLength
                      THEN history
                      ELSE Append(history, facePosition),
          lastPos |-> facePosition,
          shifted |-> IF Len(history) + 1 > maxHistoryLength
                      THEN facePosition ELSE NullBox]
    ELSE [history |-> history, lastPos |-> lastPos, shifted |-> NullBox]

\* a variant of updateFaceHistory that does not test the size of the box
updateFaceHistoryAnySize(history, lastPos, facePosition) ==
    IF facePosition # NullBox
    THEN [history |-> IF Len(history) + 1 > maxHistoryLength
                      THEN Tail(Append(history, facePosition))
                      ELSE Append(history, facePosition),
          lastPos |-> facePosition,
          shifted |-> IF Len(history) + 1 > maxHistoryLength
                      THEN Head(Append(history, facePosition)) ELSE NullBox]
    ELSE [history |-> history, lastPos |-> lastPos, shifted |-> NullBox]

\* updateFaceHistory: the new faceTrackingHistory and lastKnownFacePosition, and
\* the box shift() removed (null when it was not called)
updateFaceHistory(history, lastPos, facePosition) ==
    IF facePosition # NullBox /\ isValidFaceSize(facePosition)
    THEN [history |-> IF Len(history) + 1 > maxHistoryLength
                      THEN Tail(Append(history, facePosition))
                      ELSE Append(history, facePosition),
          lastPos |-> facePosition,
          shifted |-> IF Len(history) + 1 > maxHistoryLength
                      THEN Head(Append(history, facePosition)) ELSE NullBox]
    ELSE [history |-> history, lastPos |-> lastPos, shifted |-> NullBox]

(***************************************************************************)
(* The frames the camera delivers                                          *)
(***************************************************************************)
\* 1: background only; 2: a skin patch in the middle; 3: a skin patch in the
\* lower left corner; 4: a graphics nothing was drawn on
Frames ==
    <<<<1, 1, 1, 1,  1, 1, 1, 1,  1, 1, 1, 1>>,
      <<1, 1, 1, 1,  1, 2, 2, 1,  1, 1, 1, 1>>,
      <<1, 1, 1, 1,  1, 1, 1, 1,  2, 1, 1, 1>>,
      <<3, 3, 3, 3,  3, 3, 3, 3,  3, 3, 3, 3>>>>

EmptyGraphics == Len(Frames)

CameraFrames == 1..(Len(Frames) - 1)

\* the strategies' results on each frame, evaluated once
SkinToneTable == [k \in DOMAIN Frames |-> detectBySkinTone(Frames[k])]

ScanTable == [k \in DOMAIN Frames |-> scanForFaceRegions(Frames[k])]

(***************************************************************************)
(* The external detector's results                                         *)
(***************************************************************************)
\* the first result of faceMesh.detect: {box: {xMin, yMin, width, height}},
\* {boundingBox: {topLeft: {x, y}, width, height}} or an object with neither;
\* coordinates in half pixels
MLFace(shape, x2, y2, w2, h2) == [shape |-> shape, x2 |-> x2, y2 |-> y2, w2 |-> w2, h2 |-> h2]

MLFaces ==
    {MLFace("box", 101, 80, 121, 120),
     MLFace("boundingBox", 260, 41, 100, 80),
     MLFace("box", -10, 20, 40, 40),
     MLFace("box", 340, 60, 80, 80),
     MLFace("boundingBox", 60, 60, 0, 80),
     MLFace("none", 0, 0, 0, 0)}

\* the bbox built from the first result (undefined when it has neither shape)
NormalizeFace(face) ==
    IF face.shape \in {"box", "boundingBox"}
    THEN Box(Max(0, RoundDiv(face.x2, 2)), Max(0, RoundDiv(face.y2, 2)),
             Min(RoundDiv(face.w2, 2), ImageWidth), Min(RoundDiv(face.h2, 2), ImageHeight))
    ELSE NullBox

\* a variant of BoxUsable that also asks for a valid face size
BoxUsableValidSize(bbox) ==
    bbox # NullBox /\ bbox.width > 0 /\ bbox.height > 0 /\ isValidFaceSize(bbox)

\* if (bbox && bbox.width > 0 && bbox.height > 0)
BoxUsable(bbox) == bbox # NullBox /\ bbox.width > 0 /\ bbox.height > 0

\* a variant of ClampToFrame that leaves the box as the detector gave it
ClampToFrameSkipped(bbox) == bbox

\* the "final bounds validation" of processFaceDetection
ClampToFrame(bbox) ==
    Box(bbox.x, bbox.y,
        IF bbox.x + bbox.width > ImageWidth THEN ImageWidth - bbox.x ELSE bbox.width,
        IF bbox.y + bbox.height > ImageHeight THEN ImageHeight - bbox.y ELSE bbox.height)

\* the validation of enableRealTimeFaceTracking before it updates the history
TrackingBoxAccepted(faceBbox) ==
    /\ faceBbox # NullBox
    /\ faceBbox.width > 0 /\ faceBbox.height > 0
    /\ faceBbox.x + faceBbox.width <= ImageWidth
    /\ faceBbox.y + faceBbox.height <= ImageHeight

\* what an awaited faceMesh.detect call can do
DetectOutcomes ==
    {[kind |-> "throw", face |-> MLFace("none", 0, 0, 0, 0)],
     [kind |-> "empty", face |-> MLFace("none", 0, 0, 0, 0)]}
      \cup {[kind |-> "faces", face |-> f] : f \in MLFaces}


(***************************************************************************)
(* The positions the tracker can remember                                  *)
(***************************************************************************)
\* the user and clock events one behaviour of the model may contain
MaxEvents == 2

\* the boxes the detector's results turn into
DetectorBoxes ==
    {NormalizeFace(f) : f \in MLFaces} \cup {ClampToFrame(NormalizeFace(f)) : f \in MLFaces}

\* the values lastKnownFacePosition can hold after at most n accepted calls of
\* updateFaceHistory: every call hands it a box of a strategy, the center box
\* or a box of the detector
RECURSIVE KnownPositions(_)
KnownPositions(n) ==
    IF n = 0 THEN {NullBox}
    ELSE LET prev == KnownPositions(n - 1)
             found == {SkinToneTable[k] : k \in DOMAIN Frames}
                        \cup {ScanTable[k] : k \in DOMAIN Frames}
                        \cup {trackByMotion(Frames[k], b) : k \in DOMAIN Frames, b \in prev}
                        \cup DetectorBoxes \cup {getDefaultCenterFace}
         IN  prev \cup {b \in found : b # NullBox /\ isValidFaceSize(b)}

\* trackByMotion on each frame from each remembered position, evaluated once
MotionTable ==
    [k \in DOMAIN Frames |->
        [b \in KnownPositions(MaxEvents) |-> trackByMotion(Frames[k], b)]]

(***************************************************************************)
(* FaceProcessor.detectFaceManually                                        *)
(***************************************************************************)
\* img.loadPixels() is a call into p5.js and may throw.  It is called on the
\* captured image first in detectBySkinTone, outside any try of the strategy:
\* "skin" is the run in which it throws there and ends the try block of
\* detectFaceManually
PixelFailures == {"none", "skin"}

\* a variant of ChooseBest that prefers the scanned region
ChooseBestScanFirst(skinToneFace, motionFace, scanFace) ==
    IF scanFace # NullBox THEN scanFace
    ELSE IF skinToneFace # NullBox THEN skinToneFace
    ELSE motionFace

\* bestFace = skinToneFace || motionFace || scanFace
ChooseBest(skinToneFace, motionFace, scanFace) ==
    IF skinToneFace # NullBox THEN skinToneFace
    ELSE IF motionFace # NullBox THEN motionFace
    ELSE scanFace

\* a variant of StrategyRuns that stops at the first strategy that found a box
StrategyRunsUntilFound(earlierThrew, earlierFound) ==
    ~earlierThrew /\ earlierFound = NullBox

\* the three calls are consecutive statements of the try block: a strategy is
\* called unless an earlier statement threw, whatever the earlier ones found
StrategyRuns(earlierThrew, earlierFound) == ~earlierThrew

\* what one call of detectFaceManually(faceImage, capturedImage) does: which
\* strategies ran and their results, the box chosen, whether updateFaceHistory
\* was called on it, and the box handed to applyFaceFilter
TryStrategies(found, fail) ==
    LET threw == fail = "skin"
        skinToneFace == IF threw THEN NullBox ELSE found.skin
        motionRan == StrategyRuns(threw, skinToneFace)
        motionFace == IF motionRan THEN found.motion ELSE NullBox
        scanRan == StrategyRuns(threw, ChooseBest(skinToneFace, motionFace, NullBox))
        scanFace == IF scanRan THEN found.scan ELSE NullBox
        chosen == ChooseBest(skinToneFace, motionFace, scanFace)
        bestFace == IF threw \/ chosen = NullBox THEN getDefaultCenterFace ELSE chosen
    IN  [skinRan |-> TRUE, motionRan |-> motionRan, scanRan |-> scanRan,
         skinToneFace |-> skinToneFace, motionFace |-> motionFace,
         scanFace |-> scanFace, threw |-> threw,
         bestFace |-> bestFace, updated |-> ~threw, applied |-> bestFace]

\* found: what the three strategies return on this frame when nothing throws
detectFaceManually(frame, lastPos, fail) ==
    With([skin |-> SkinToneTable[frame], motion |-> MotionTable[frame][lastPos],
          scan |-> ScanTable[frame]],
         LAMBDA found : TryStrategies(found, fail))

NoChain ==
    [skinRan |-> FALSE, motionRan |-> FALSE, scanRan |-> FALSE,
     skinToneFace |-> NullBox, motionFace |-> NullBox, scanFace |-> NullBox,
     threw |-> FALSE, bestFace |-> NullBox, updated |-> FALSE, applied |-> NullBox]

(***************************************************************************)
(* ImageProcessor's transforms and FaceProcessor.processFace               *)
(***************************************************************************)
\* what a step that needs a new raster can do: "ok"; "nograph", createGraphics
\* throws (safeCreateGraphics then returns null); "throw", a later call on the
\* rasters (loadPixels, filter, copy) throws
StepOutcomes == {"ok", "nograph", "throw"}

\* a raster: id names the object (the place that created it), ops the
\* transforms its pixels went through, from the frame and region the pixels
\* were taken from
Raster(id, ops, from, region) == [id |-> id, ops |-> ops, from |-> from, region |-> region]

\* null
NullRaster == Raster("null", <<>>, "none", NullBox)

\* the call did not return: it threw
Thrown == Raster("thrown", <<>>, "none", NullBox)

\* a new raster holding the pixels of img after one more transform
Transformed(img, id, name, arg) ==
    Raster(id, Append(img.ops, [name |-> name, arg |-> arg]), img.from, img.region)

createGrayscaleWithBrightness(img, out) ==
    IF out = "nograph" THEN NullRaster
    ELSE IF out = "throw" THEN Thrown
    ELSE Transformed(img, "grayscale", "grayscaleWithBrightness", 120)

\* createGraphics is called directly: a failure to create the raster throws
convertToHSV(img, out) ==
    IF out \in {"nograph", "throw"} THEN Thrown
    ELSE Transformed(img, "hsv", "toHSV", 0)

\* blocks of 12 x 12 pixels; img.width of a null img throws
pixelateImage(img, out) ==
    IF img = NullRaster THEN Thrown
    ELSE IF out = "nograph" THEN img
    ELSE IF out = "throw" THEN Thrown
    ELSE Transformed(img, "pixelate", "pixelate", 12)

blurImage(img, radius, out) ==
    IF out = "nograph" THEN img
    ELSE IF out = "throw" THEN Thrown
    ELSE Transformed(img, "blur", "blur", radius)

\* the switch of processFace; Thrown when a case throws
ProcessFaceSwitch(faceImg, filterType, outs) ==
    CASE filterType = 1 -> createGrayscaleWithBrightness(faceImg, outs.first)
      [] filterType = 2 -> blurImage(faceImg, 25, outs.first)
      [] filterType = 3 -> convertToHSV(faceImg, outs.first)
      [] filterType = 4 ->
           With(createGrayscaleWithBrightness(faceImg, outs.first),
                LAMBDA grayscaleFace :
                    IF grayscaleFace = Thrown THEN Thrown
                    ELSE pixelateImage(grayscaleFace, outs.second))
      [] OTHER -> faceImg

\* processFace(faceImg, filterType): the catch block returns faceImg
processFace(faceImg, filterType, havePixels, outs) ==
    IF faceImg = NullRaster \/ ~havePixels THEN faceImg
    ELSE With(ProcessFaceSwitch(faceImg, filterType, outs),
              LAMBDA result : IF result = Thrown THEN faceImg ELSE result)

\* the box extractFaceRegion cuts out: the face box clamped to the image
ExtractBox(face) ==
    Box(Max(0, Min(face.x, ImageWidth - 1)), Max(0, Min(face.y, ImageHeight - 1)),
        Min(face.width, ImageWidth - Max(0, Min(face.x, ImageWidth - 1))),
        Min(face.height, ImageHeight - Max(0, Min(face.y, ImageHeight - 1))))

\* extractFaceRegion(img, face): a new raster with the pixels of the clamped
\* box, null for an empty box and when the raster cannot be made
extractFaceRegion(face, out) ==
    IF face = NullBox \/ face.width <= 0 \/ face.height <= 0 THEN NullRaster
    ELSE IF ExtractBox(face).width <= 0 \/ ExtractBox(face).height <= 0 THEN NullRaster
    ELSE IF out # "ok" THEN NullRaster
    ELSE Raster("faceRegion", <<>>, "capturedImage", ExtractBox(face))

\* what happens inside one call of applyFaceFilter: the outcome of the raster
\* made by extractFaceRegion, of the first and second raster made by
\* processFace, of the temporary raster of the blur filter and of
\* faceImage.copy; havePixels: the face region has a pixels array
FilterEnv(extract, first, second, temp, copy, havePixels) ==
    [extract |-> extract, first |-> first, second |-> second, temp |-> temp,
     copy |-> copy, havePixels |-> havePixels]

\* nothing fails
EnvOk == FilterEnv("ok", "ok", "ok", "ok", "ok", TRUE)

\* nothing was written into faceImage
NoPaste == [raster |-> NullRaster, at |-> NullBox, via |-> "none"]

\* the size of the part of processedFace that is copied into faceImage
CopyBox(faceBbox, processedFace) ==
    Box(faceBbox.x, faceBbox.y,
        Min(processedFace.region.width, ImageWidth - faceBbox.x),
        Min(processedFace.region.height, ImageHeight - faceBbox.y))

\* a variant of Composite that writes processedFace for every filter
CompositeProcessedFace(faceBbox, filter, processedFace, env) ==
    IF processedFace = NullRaster THEN NoPaste
    ELSE IF CopyBox(faceBbox, processedFace).width > 0
              /\ CopyBox(faceBbox, processedFace).height > 0
    THEN [raster |-> processedFace, at |-> CopyBox(faceBbox, processedFace),
          via |-> IF env.copy = "ok" THEN "copy" ELSE "fallbackPixelCopy"]
    ELSE NoPaste

\* the compositing of applyFaceFilter: which raster is written into faceImage,
\* where, and by which means
Composite(faceBbox, filter, processedFace, env) ==
    IF processedFace = NullRaster THEN NoPaste
    ELSE IF filter = 2
    THEN IF env.temp = "ok"
         THEN [raster |-> Raster("tempFace", <<[name |-> "blur", arg |-> 30]>>,
                                 "faceImage", faceBbox),
               at |-> faceBbox, via |-> "copy"]
         ELSE NoPaste
    ELSE IF CopyBox(faceBbox, processedFace).width > 0
              /\ CopyBox(faceBbox, processedFace).height > 0
    THEN [raster |-> processedFace, at |-> CopyBox(faceBbox, processedFace),
          via |-> IF env.copy = "ok" THEN "copy" ELSE "fallbackPixelCopy"]
    ELSE NoPaste

(***************************************************************************)
(* State                                                                   *)
(***************************************************************************)
VARIABLES
    videoState,             \* the capture element: "off", "metadata" or "ready"
    cameraActive,           \* let cameraActive
    faceMesh,               \* TRUE when faceMesh holds a model with detect()
    setupPhase,             \* which of setup()'s timers are still to fire
    capturedImage,          \* let capturedImage: [id, frame], id 0 for null
    isCapturing,            \* let isCapturing
    currentFaceFilter,      \* let currentFaceFilter
    captureTimers,          \* 100 ms timeouts of captureImage not yet fired
    lastKnownFacePosition,  \* faceProcessor.lastKnownFacePosition
    faceTrackingHistory,    \* faceProcessor.faceTrackingHistory
    pending,                \* processFaceDetection calls awaiting onload / detect
    trackPending,           \* enableRealTimeFaceTracking calls awaiting detect
    faceTrackingInterval,   \* TRUE when the 3 s interval is set
    liveIntervals,          \* intervals scheduled by setInterval and not cleared
    startTimers,            \* 2 s timeouts of toggleCamera not yet fired
    faceDetectionCanvas,    \* what the 'faceDetection' canvas shows
    nEvents,                \* user and clock events so far
    pipeline,               \* record of the latest run of processImages()
    thresholds,             \* the values of the five threshold sliders
    voiceFeedback,          \* the kind of the latest VoiceController.showFeedback
    call,                   \* the latest call of a function called on its own:
                            \* its name, its arguments and what it returned
    lastRun,                \* record of the latest run of the detection stage
    histCall                \* record of the latest updateFaceHistory call

vars ==
    <<videoState, cameraActive, faceMesh, setupPhase, capturedImage, isCapturing,
      currentFaceFilter, captureTimers, lastKnownFacePosition, faceTrackingHistory,
      pending, trackPending, faceTrackingInterval, liveIntervals, startTimers,
      faceDetectionCanvas,
      nEvents, pipeline, thresholds, voiceFeedback, call, lastRun, histCall>>

\* the variables the detection stage writes
detectionVars ==
    <<lastKnownFacePosition, faceTrackingHistory, pending, faceDetectionCanvas,
      lastRun, histCall>>

\* the variables of the camera and of the tracking timers
cameraVars == <<videoState, cameraActive, faceTrackingInterval, liveIntervals,
               startTimers>>

\* the threshold sliders: redThreshold, greenThreshold, blueThreshold,
\* hsvThreshold, labThreshold
Channels == {"red", "green", "blue", "hsv", "lab"}

DefaultThreshold == 128

NoImage == [id |-> 0, frame |-> 0]

\* no function was called on its own yet
NoCall == [fn |-> "none"]

\* the transform steps of processImages, in the order of the code: Step 1
\* grayscale, Step 2 channel extraction, Step 3 channel thresholds, Step 4 HSV
\* and Lab conversion, Step 5 colorspace thresholds
PipelineSteps ==
    <<"grayscale", "channels", "channelThreshold", "colorSpace", "colorSpaceThreshold">>

\* the step in which createGraphics fails, if any
PipelineFailures == {"none"} \cup {PipelineSteps[i] : i \in DOMAIN PipelineSteps}

StepIndex(step) == CHOOSE i \in DOMAIN PipelineSteps : PipelineSteps[i] = step

\* createGrayscaleWithBrightness asks safeCreateGraphics and returns null, which
\* processImages skips; the other transforms call createGraphics themselves, so
\* the failure is an exception that ends the try block of processImages
StepAborts(failAt) == failAt \notin {"none", "grayscale"}

NoPipeline ==
    [image |-> 0, failedAt |-> "none", displayed |-> {}, originalRepeat |-> FALSE,
     faceDetection |-> FALSE]

\* what processImages() does up to Step 7: the steps whose outputs were
\* displayed, whether the original was displayed again (Step 6) and whether
\* processFaceDetection was called (Step 7)
processImages(image, failAt) ==
    [image |-> image.id, failedAt |-> failAt,
     displayed |-> {PipelineSteps[i] : i \in
                      {j \in DOMAIN PipelineSteps :
                          IF StepAborts(failAt) THEN j < StepIndex(failAt)
                          ELSE PipelineSteps[j] # failAt}},
     originalRepeat |-> ~StepAborts(failAt),
     faceDetection |-> ~StepAborts(failAt)]


NoOutput ==
    [base |-> 0, src |-> 0, box |-> NullBox, filter |-> 0, composited |-> FALSE,
     label |-> "none", processedFace |-> NullRaster, pasted |-> NoPaste]

NoRun ==
    [origin |-> "none", detector |-> "none", mlBox |-> NullBox, manualRuns |-> 0,
     chain |-> NoChain, updated |-> FALSE, usedBox |-> NullBox, displayed |-> FALSE,
     base |-> 0, frame |-> 0, lastPos |-> NullBox, configured |-> FALSE]

NoHistCall == [by |-> "none", box |-> NullBox, capturing |-> FALSE, shifted |-> NullBox]

Init ==
    /\ videoState = "off"
    /\ cameraActive = FALSE
    /\ faceMesh = FALSE
    /\ setupPhase = "start"
    /\ capturedImage = NoImage
    /\ isCapturing = FALSE
    /\ currentFaceFilter = 0
    /\ captureTimers = 0
    /\ lastKnownFacePosition = NullBox
    /\ faceTrackingHistory = <<>>
    /\ pending = <<>>
    /\ trackPending = 0
    /\ faceTrackingInterval = FALSE
    /\ liveIntervals = 0
    /\ startTimers = 0
    /\ faceDetectionCanvas = NoOutput
    /\ nEvents = 0
    /\ pipeline = NoPipeline
    /\ thresholds = [channel \in Channels |-> DefaultThreshold]
    /\ voiceFeedback = "none"
    /\ call = NoCall
    /\ lastRun = NoRun
    /\ histCall = NoHistCall

(***************************************************************************)
(* FaceProcessor.applyFaceFilter and the detection stage                   *)
(***************************************************************************)
\* extractFaceRegion returns a raster unless the box, clamped to the image, is
\* empty
ExtractSucceeds(face) ==
    /\ face # NullBox /\ face.width > 0 /\ face.height > 0
    /\ Min(face.width, ImageWidth - Max(0, Min(face.x, ImageWidth - 1))) > 0
    /\ Min(face.height, ImageHeight - Max(0, Min(face.y, ImageHeight - 1))) > 0

\* faceBbox !== this.getDefaultCenterFace() compares the box with an object
\* created by that very call: the two are never the same object
isEnhancedDetection(faceBbox) == TRUE

\* the face frame after applyFaceFilter: a copy of image `base`, with the region
\* faceBbox of image `src` filtered and composited, and the labelled rectangle;
\* processedFace is what processFace returned (null when the region could not
\* be extracted)
applyFaceFilterIn(base, src, faceBbox, filter, env) ==
    With(processFace(extractFaceRegion(faceBbox, env.extract), filter, env.havePixels, env),
         LAMBDA processedFace :
            [base |-> base.id, src |-> src.id, box |-> faceBbox, filter |-> filter,
             composited |-> Composite(faceBbox, filter, processedFace, env) # NoPaste,
             label |-> IF isEnhancedDetection(faceBbox) THEN "Smart Detection"
                                                        ELSE "Center Fallback",
             processedFace |-> processedFace,
             pasted |-> Composite(faceBbox, filter, processedFace, env)])

\* applyFaceFilter when every raster can be made
applyFaceFilter(base, src, faceBbox, filter) ==
    applyFaceFilterIn(base, src, faceBbox, filter, EnvOk)

\* faceProcessor.detectFaceManually(faceImage, capturedImage) followed by
\* displayImageOnCanvas(faceImage, 'faceDetection'), as every branch of
\* processFaceDetection that falls back to the heuristics runs them
RunManual(base, origin, detector, mlBox, filter, fail) ==
    \E chain \in {detectFaceManually(capturedImage'.frame, lastKnownFacePosition, fail)} :
      \E upd \in {IF chain.updated
                  THEN updateFaceHistory(faceTrackingHistory, lastKnownFacePosition,
                                         chain.bestFace)
                  ELSE [history |-> faceTrackingHistory,
                        lastPos |-> lastKnownFacePosition, shifted |-> NullBox]} :
        /\ faceTrackingHistory' = upd.history
        /\ lastKnownFacePosition' = upd.lastPos
        /\ histCall' = IF chain.updated
                       THEN [by |-> origin, box |-> chain.bestFace,
                             capturing |-> isCapturing, shifted |-> upd.shifted]
                       ELSE histCall
        /\ faceDetectionCanvas' = applyFaceFilter(base, capturedImage', chain.applied, filter)
        /\ lastRun' = [origin |-> origin, detector |-> detector, mlBox |-> mlBox,
                       manualRuns |-> 1, chain |-> chain, updated |-> chain.updated,
                       usedBox |-> chain.applied, displayed |-> TRUE, base |-> base.id,
                       frame |-> capturedImage'.frame,
                       lastPos |-> lastKnownFacePosition,
                       configured |-> detector \notin {"unconfigured", "debug"}]

\* processFaceDetection().  allocOk: safeCreateGraphics returned the face frame.
\* With a detector the image is handed to it and the function returns; the
\* onload and detect callbacks run later (ImageLoaded, ImageError, DetectDone).
processFaceDetection(origin, filter, allocOk, fail) ==
    IF capturedImage' = NoImage
    THEN UNCHANGED detectionVars
    ELSE IF ~allocOk
    THEN /\ lastRun' = [NoRun EXCEPT !.origin = origin, !.detector = "allocfail",
                                     !.base = capturedImage'.id,
                                     !.frame = capturedImage'.frame,
                                     !.configured = faceMesh]
         /\ UNCHANGED <<lastKnownFacePosition, faceTrackingHistory, pending,
                        faceDetectionCanvas, histCall>>
    ELSE IF faceMesh
    THEN /\ pending' = Append(pending, [base |-> capturedImage', origin |-> origin,
                                        stage |-> "loading"])
         /\ UNCHANGED <<lastKnownFacePosition, faceTrackingHistory,
                        faceDetectionCanvas, lastRun, histCall>>
    ELSE /\ RunManual(capturedImage', origin, "unconfigured", NullBox, filter, fail)
         /\ UNCHANGED pending


(***************************************************************************)
(* Start-up: the capture element and the timers of setup()                 *)
(***************************************************************************)
\* video && video.elt && video.elt.readyState >= 2
VideoIsReady == videoState = "ready"

\* the variables of the voice commands on the thresholds
voiceVars == <<thresholds, voiceFeedback>>

captureVars ==
    <<capturedImage, isCapturing, currentFaceFilter, captureTimers, pipeline, voiceVars>>

\* the callback of createCapture
videoReady ==
    /\ videoState = "off"
    /\ videoState' = "metadata"
    /\ cameraActive' = TRUE
    /\ UNCHANGED <<faceMesh, setupPhase, captureVars, detectionVars, trackPending,
                   faceTrackingInterval, liveIntervals, startTimers, nEvents>>
    /\ UNCHANGED call

\* the capture element has a frame to deliver
VideoLoaded ==
    /\ videoState = "metadata"
    /\ videoState' = "ready"
    /\ UNCHANGED <<cameraActive, faceMesh, setupPhase, captureVars, detectionVars,
                   trackPending, faceTrackingInterval, liveIntervals, startTimers,
                   nEvents>>
    /\ UNCHANGED call

\* startPeriodicFaceTracking(): the new value of faceTrackingInterval
startPeriodicFaceTracking(interval) == IF interval THEN interval ELSE TRUE

\* stopPeriodicFaceTracking(): the new value of faceTrackingInterval
stopPeriodicFaceTracking(interval) == IF interval THEN FALSE ELSE interval

\* startPeriodicFaceTracking() with its early return removed
IntervalsAfterStartUnguarded(interval, n) == n + 1

\* startPeriodicFaceTracking(): the number of intervals that setInterval has
\* scheduled and clearInterval has not cleared, n before the call
IntervalsAfterStart(interval, n) == IF interval THEN n ELSE n + 1

\* stopPeriodicFaceTracking(): clearInterval on the interval that
\* faceTrackingInterval holds
IntervalsAfterStop(interval, n) == IF interval THEN n - 1 ELSE n

\* the 3 s timer of setup(): ml5 is loaded and the model is created ("loaded"),
\* ml5 is loaded but offers no detector ("failed"), or ml5 is not loaded yet
\* and a retry is scheduled ("retry")
ModelInit(outcome) ==
    /\ setupPhase = "start"
    /\ faceMesh' = (outcome = "loaded")
    /\ setupPhase' = IF outcome = "retry" THEN "retry" ELSE "model"
    /\ UNCHANGED <<cameraVars, captureVars, detectionVars, trackPending, nEvents>>
    /\ UNCHANGED call

\* the 5 s timer of setup()
TrackingSetup ==
    /\ setupPhase \in {"model", "retry"}
    /\ setupPhase' = IF setupPhase = "retry" THEN "retryDue" ELSE "done"
    /\ faceTrackingInterval' = IF faceMesh
                               THEN startPeriodicFaceTracking(faceTrackingInterval)
                               ELSE faceTrackingInterval
    /\ liveIntervals' = IF faceMesh
                        THEN IntervalsAfterStart(faceTrackingInterval, liveIntervals)
                        ELSE liveIntervals
    /\ UNCHANGED <<videoState, cameraActive, faceMesh, startTimers, captureVars,
                   detectionVars, trackPending, nEvents>>
    /\ UNCHANGED call

\* the retry of the model creation, 2 s after the 3 s timer
ModelRetry(loaded) ==
    /\ setupPhase = "retryDue"
    /\ setupPhase' = "done"
    /\ faceMesh' = loaded
    /\ UNCHANGED <<cameraVars, captureVars, detectionVars, trackPending, nEvents>>
    /\ UNCHANGED call

(***************************************************************************)
(* UIController.captureImage and its 100 ms timer                          *)
(***************************************************************************)
\* where the try block of captureImage may throw
CaptureThrows == {"none", "createGraphics", "draw"}

captureImage(frame, throwAt) ==
    /\ nEvents < MaxEvents
    /\ nEvents' = nEvents + 1
    /\ IF ~VideoIsReady
       THEN UNCHANGED <<capturedImage, isCapturing, captureTimers>>
       ELSE IF throwAt = "createGraphics"
       THEN /\ isCapturing' = FALSE
            /\ UNCHANGED <<capturedImage, captureTimers>>
       ELSE IF throwAt = "draw"
       THEN /\ capturedImage' = [id |-> capturedImage.id + 1, frame |-> EmptyGraphics]
            /\ isCapturing' = FALSE
            /\ UNCHANGED captureTimers
       ELSE /\ capturedImage' = [id |-> capturedImage.id + 1, frame |-> frame]
            /\ isCapturing' = TRUE
            /\ captureTimers' = captureTimers + 1
    /\ UNCHANGED <<cameraVars, faceMesh, setupPhase, currentFaceFilter, pipeline,
                   voiceVars, detectionVars, trackPending>>
    /\ UNCHANGED call

\* a variant of CaptureTimer in which a failure that ends processImages early
\* also ends the callback, before isCapturing is cleared
CaptureTimerLeavingOnError(failAt, allocOk, fail) ==
    /\ captureTimers > 0
    /\ captureTimers' = captureTimers - 1
    /\ isCapturing' = (isCapturing /\ StepAborts(failAt))
    /\ UNCHANGED <<capturedImage, currentFaceFilter, voiceVars>>
    /\ IF isCapturing
       THEN /\ pipeline' = processImages(capturedImage, failAt)
            /\ IF pipeline'.faceDetection
               THEN processFaceDetection("capture", currentFaceFilter, allocOk, fail)
               ELSE UNCHANGED detectionVars
       ELSE UNCHANGED <<pipeline, detectionVars>>
    /\ UNCHANGED <<cameraVars, faceMesh, setupPhase, trackPending, nEvents>>
    /\ UNCHANGED call

\* the callback of the 100 ms timer: processImages() when isCapturing is still
\* set
CaptureTimer(failAt, allocOk, fail) ==
    /\ captureTimers > 0
    /\ captureTimers' = captureTimers - 1
    /\ isCapturing' = FALSE
    /\ UNCHANGED <<capturedImage, currentFaceFilter, voiceVars>>
    /\ IF isCapturing
       THEN /\ pipeline' = processImages(capturedImage, failAt)
            /\ IF pipeline'.faceDetection
               THEN processFaceDetection("capture", currentFaceFilter, allocOk, fail)
               ELSE UNCHANGED detectionVars
       ELSE UNCHANGED <<pipeline, detectionVars>>
    /\ UNCHANGED <<cameraVars, faceMesh, setupPhase, trackPending, nEvents>>
    /\ UNCHANGED call

(***************************************************************************)
(* Filter changes: the buttons, the keys 0-4 and the voice command         *)
(***************************************************************************)
\* the data-filter values of the filter buttons
ButtonFilters == 0..4

\* the digits a key press or a voice command may carry
DigitInputs == 0..5

\* the click handler of a filter button
FilterButton(f, allocOk, fail) ==
    /\ nEvents < MaxEvents
    /\ nEvents' = nEvents + 1
    /\ currentFaceFilter' = f
    /\ UNCHANGED <<capturedImage, isCapturing, captureTimers, pipeline, voiceVars>>
    /\ processFaceDetection("filter", f, allocOk, fail)
    /\ UNCHANGED <<cameraVars, faceMesh, setupPhase, trackPending>>
    /\ UNCHANGED call

\* a variant of keyPressed that takes every digit as a filter
keyPressedAnyDigit(keyNum, allocOk, fail) ==
    /\ nEvents < MaxEvents
    /\ nEvents' = nEvents + 1
    /\ UNCHANGED <<capturedImage, isCapturing, captureTimers, pipeline, voiceVars>>
    /\ currentFaceFilter' = keyNum
    /\ processFaceDetection("filter", keyNum, allocOk, fail)
    /\ UNCHANGED <<cameraVars, faceMesh, setupPhase, trackPending>>
    /\ UNCHANGED call

\* keyPressed() with a digit key
keyPressed(keyNum, allocOk, fail) ==
    /\ nEvents < MaxEvents
    /\ nEvents' = nEvents + 1
    /\ UNCHANGED <<capturedImage, isCapturing, captureTimers, pipeline, voiceVars>>
    /\ IF keyNum >= 0 /\ keyNum <= 4
       THEN /\ currentFaceFilter' = keyNum
            /\ processFaceDetection("filter", keyNum, allocOk, fail)
       ELSE UNCHANGED <<currentFaceFilter, detectionVars>>
    /\ UNCHANGED <<cameraVars, faceMesh, setupPhase, trackPending>>
    /\ UNCHANGED call

\* VoiceController.executeCommand('faceFilter', filterValue)
VoiceFaceFilter(filterValue, allocOk, fail) ==
    /\ nEvents < MaxEvents
    /\ nEvents' = nEvents + 1
    /\ UNCHANGED <<capturedImage, isCapturing, captureTimers, pipeline, voiceVars>>
    /\ IF filterValue >= 0 /\ filterValue <= 4
       THEN /\ currentFaceFilter' = filterValue
            /\ processFaceDetection("filter", filterValue, allocOk, fail)
       ELSE UNCHANGED <<currentFaceFilter, detectionVars>>
    /\ UNCHANGED <<cameraVars, faceMesh, setupPhase, trackPending>>
    /\ UNCHANGED call

\* keyPressed() with 'd': the heuristics run on a fresh copy of the captured
\* image and the result is displayed
keyPressedDebug(fail) ==
    /\ nEvents < MaxEvents
    /\ nEvents' = nEvents + 1
    /\ UNCHANGED captureVars
    /\ IF capturedImage # NoImage
       THEN /\ RunManual(capturedImage, "debug", "debug", NullBox, currentFaceFilter, fail)
            /\ UNCHANGED pending
       ELSE UNCHANGED detectionVars
    /\ UNCHANGED <<cameraVars, faceMesh, setupPhase, trackPending>>
    /\ UNCHANGED call


(***************************************************************************)
(* The camera switch and the periodic tracking                             *)
(***************************************************************************)
\* UIController.toggleCamera(), from the button, the key 't' or the voice
\* command 'toggleCamera'
toggleCamera ==
    /\ nEvents < MaxEvents
    /\ nEvents' = nEvents + 1
    /\ cameraActive' = ~cameraActive
    /\ IF ~cameraActive
       THEN /\ startTimers' = startTimers + 1
            /\ UNCHANGED <<faceTrackingInterval, liveIntervals>>
       ELSE /\ faceTrackingInterval' = stopPeriodicFaceTracking(faceTrackingInterval)
            /\ liveIntervals' = IntervalsAfterStop(faceTrackingInterval, liveIntervals)
            /\ UNCHANGED startTimers
    /\ UNCHANGED <<videoState, faceMesh, setupPhase, captureVars, detectionVars,
                   trackPending>>
    /\ UNCHANGED call

\* the callback of toggleCamera's 2 s timer
StartTimer ==
    /\ startTimers > 0
    /\ startTimers' = startTimers - 1
    /\ faceTrackingInterval' = IF faceMesh
                               THEN startPeriodicFaceTracking(faceTrackingInterval)
                               ELSE faceTrackingInterval
    /\ liveIntervals' = IF faceMesh
                        THEN IntervalsAfterStart(faceTrackingInterval, liveIntervals)
                        ELSE liveIntervals
    /\ UNCHANGED <<videoState, cameraActive, faceMesh, setupPhase, captureVars,
                   detectionVars, trackPending, nEvents>>
    /\ UNCHANGED call

\* VoiceController.executeCommand('startCamera')
VoiceStartCamera ==
    /\ nEvents < MaxEvents
    /\ nEvents' = nEvents + 1
    /\ cameraActive' = TRUE
    /\ UNCHANGED <<videoState, faceTrackingInterval, liveIntervals, startTimers,
                   faceMesh, setupPhase, captureVars, detectionVars, trackPending>>
    /\ UNCHANGED call

\* VoiceController.executeCommand('stopCamera')
VoiceStopCamera ==
    /\ nEvents < MaxEvents
    /\ nEvents' = nEvents + 1
    /\ cameraActive' = FALSE
    /\ UNCHANGED <<videoState, faceTrackingInterval, liveIntervals, startTimers,
                   faceMesh, setupPhase, captureVars, detectionVars, trackPending>>
    /\ UNCHANGED call

\* the guard of the interval callback of startPeriodicFaceTracking
TickGuard == cameraActive /\ VideoIsReady /\ ~isCapturing

\* the guards of enableRealTimeFaceTracking before it awaits faceMesh.detect
TrackingGuard == faceMesh /\ VideoIsReady /\ cameraActive

\* one tick of the 3 s interval: enableRealTimeFaceTracking() up to its await
TrackingTick ==
    /\ liveIntervals > 0
    /\ nEvents < MaxEvents
    /\ nEvents' = nEvents + 1
    /\ trackPending' = IF TickGuard /\ TrackingGuard THEN trackPending + 1
                                                     ELSE trackPending
    /\ UNCHANGED <<cameraVars, faceMesh, setupPhase, captureVars, detectionVars>>
    /\ UNCHANGED call

\* enableRealTimeFaceTracking() after its await
TrackingDetectDone(outcome) ==
    /\ trackPending > 0
    /\ trackPending' = trackPending - 1
    /\ LET faceBbox == NormalizeFace(outcome.face)
           upd == updateFaceHistory(faceTrackingHistory, lastKnownFacePosition, faceBbox)
       IN  IF outcome.kind = "faces" /\ TrackingBoxAccepted(faceBbox)
           THEN /\ faceTrackingHistory' = upd.history
                /\ lastKnownFacePosition' = upd.lastPos
                /\ histCall' = [by |-> "tracking", box |-> faceBbox,
                                capturing |-> isCapturing, shifted |-> upd.shifted]
           ELSE UNCHANGED <<faceTrackingHistory, lastKnownFacePosition, histCall>>
    /\ UNCHANGED <<pending, faceDetectionCanvas, lastRun>>
    /\ UNCHANGED <<cameraVars, faceMesh, setupPhase, captureVars, nEvents>>
    /\ UNCHANGED call

(***************************************************************************)
(* processFaceDetection: the callbacks of the detector path                *)
(***************************************************************************)
\* pending without its i-th request
Without(seq, i) == SubSeq(seq, 1, i - 1) \o SubSeq(seq, i + 1, Len(seq))

\* tempImg.onload up to the await of faceMesh.detect(tempImg)
ImageLoaded(i) ==
    /\ i \in DOMAIN pending
    /\ pending[i].stage = "loading"
    /\ pending' = [pending EXCEPT ![i].stage = "detecting"]
    /\ UNCHANGED <<lastKnownFacePosition, faceTrackingHistory, faceDetectionCanvas,
                   lastRun, histCall>>
    /\ UNCHANGED <<cameraVars, faceMesh, setupPhase, captureVars, trackPending, nEvents>>
    /\ UNCHANGED call

\* tempImg.onerror
ImageError(i, fail) ==
    /\ i \in DOMAIN pending
    /\ pending[i].stage = "loading"
    /\ pending' = Without(pending, i)
    /\ UNCHANGED captureVars
    /\ RunManual(pending[i].base, pending[i].origin, "imgerror", NullBox,
                 currentFaceFilter, fail)
    /\ UNCHANGED <<cameraVars, faceMesh, setupPhase, trackPending, nEvents>>
    /\ UNCHANGED call

\* the detector's box is used: updateFaceHistory(bbox), applyFaceFilter(faceImage,
\* capturedImage, bbox), displayImageOnCanvas(faceImage, 'faceDetection')
UseDetectorBox(req, bbox) ==
    LET upd == updateFaceHistory(faceTrackingHistory, lastKnownFacePosition, bbox)
    IN  /\ faceTrackingHistory' = upd.history
        /\ lastKnownFacePosition' = upd.lastPos
        /\ histCall' = [by |-> req.origin, box |-> bbox, capturing |-> isCapturing,
                        shifted |-> upd.shifted]
        /\ faceDetectionCanvas' = applyFaceFilter(req.base, capturedImage, bbox,
                                                  currentFaceFilter)
        /\ lastRun' = [origin |-> req.origin, detector |-> "usable", mlBox |-> bbox,
                       manualRuns |-> 0, chain |-> NoChain, updated |-> TRUE,
                       usedBox |-> bbox, displayed |-> TRUE, base |-> req.base.id,
                       frame |-> capturedImage.frame,
                       lastPos |-> lastKnownFacePosition, configured |-> TRUE]

\* tempImg.onload after the await: the try block with the result of detect, or
\* its catch
DetectDone(i, outcome, fail) ==
    /\ i \in DOMAIN pending
    /\ pending[i].stage = "detecting"
    /\ pending' = Without(pending, i)
    /\ UNCHANGED captureVars
    /\ IF outcome.kind = "faces" /\ BoxUsable(NormalizeFace(outcome.face))
       THEN UseDetectorBox(pending[i], ClampToFrame(NormalizeFace(outcome.face)))
       ELSE RunManual(pending[i].base, pending[i].origin,
                      IF outcome.kind = "faces" THEN "nousable" ELSE outcome.kind,
                      NullBox, currentFaceFilter, fail)
    /\ UNCHANGED <<cameraVars, faceMesh, setupPhase, trackPending, nEvents>>
    /\ UNCHANGED call

(***************************************************************************)
(* The specification                                                       *)
(***************************************************************************)
Next ==
    \/ videoReady
    \/ VideoLoaded
    \/ \E outcome \in {"loaded", "failed", "retry"} : ModelInit(outcome)
    \/ TrackingSetup
    \/ \E loaded \in BOOLEAN : ModelRetry(loaded)
    \/ \E frame \in CameraFrames, throwAt \in CaptureThrows : captureImage(frame, throwAt)
    \/ \E failAt \in PipelineFailures, allocOk \in BOOLEAN, fail \in PixelFailures :
          CaptureTimer(failAt, allocOk, fail)
    \/ \E f \in ButtonFilters, allocOk \in BOOLEAN, fail \in PixelFailures :
          FilterButton(f, allocOk, fail)
    \/ \E keyNum \in DigitInputs, allocOk \in BOOLEAN, fail \in PixelFailures :
          keyPressed(keyNum, allocOk, fail)
    \/ \E filterValue \in DigitInputs, allocOk \in BOOLEAN, fail \in PixelFailures :
          VoiceFaceFilter(filterValue, allocOk, fail)
    \/ \E fail \in PixelFailures : keyPressedDebug(fail)
    \/ toggleCamera
    \/ StartTimer
    \/ VoiceStartCamera
    \/ VoiceStopCamera
    \/ TrackingTick
    \/ \E outcome \in DetectOutcomes : TrackingDetectDone(outcome)
    \/ \E i \in 1..MaxEvents : ImageLoaded(i)
    \/ \E i \in 1..MaxEvents, fail \in PixelFailures : ImageError(i, fail)
    \/ \E i \in 1..MaxEvents, outcome \in DetectOutcomes, fail \in PixelFailures :
          DetectDone(i, outcome, fail)

Spec == Init /\ [][Next]_vars

(***************************************************************************)
(* Captures and the isCapturing flag                                       *)
(***************************************************************************)
\* C1: a captureImage call made while isCapturing is true is rejected: it
\* neither replaces capturedImage nor schedules another processing run
C1_CaptureRejectedWhileCapturing ==
    [][(/\ isCapturing
        /\ \E frame \in CameraFrames, throwAt \in CaptureThrows :
              captureImage(frame, throwAt))
          => (capturedImage' = capturedImage /\ captureTimers' = captureTimers)]_vars

\* C2: isCapturing is not reset to false while the detection of a captured
\* frame, the awaited detect call of the detector included, is still pending
C2_CapturingUntilDetectionDone ==
    \A i \in DOMAIN pending : pending[i].origin = "capture" => isCapturing

\* C3: no updateFaceHistory call of enableRealTimeFaceTracking executes while
\* isCapturing is true
C3_TrackingNeverUpdatesWhileCapturing ==
    histCall.by = "tracking" => ~histCall.capturing

(***************************************************************************)
(* The heuristic chain                                                     *)
(***************************************************************************)
\* the first box of the sequence that is not null, null when there is none
RECURSIVE FirstNonNull(_)
FirstNonNull(boxes) ==
    IF boxes = <<>> THEN NullBox
    ELSE IF Head(boxes) # NullBox THEN Head(boxes)
    ELSE FirstNonNull(Tail(boxes))

\* the latest run of the detection stage ran the heuristic chain
ChainRan == lastRun.manualRuns = 1

\* C4: when the heuristic chain runs, the box it returns is the first non-null
\* result in the order skin tone, motion tracking, scan, center fallback; with
\* no skin-tone region and no lastKnownFacePosition but a scanned region above
\* the threshold, the scanned region is returned and not the center fallback
C4_FirstNonNullInOrder ==
    ChainRan =>
        /\ lastRun.usedBox =
              FirstNonNull(<<lastRun.chain.skinToneFace, lastRun.chain.motionFace,
                             lastRun.chain.scanFace, getDefaultCenterFace>>)
        /\ (/\ SkinToneTable[lastRun.frame] = NullBox
            /\ lastRun.lastPos = NullBox
            /\ lastRun.chain.scanFace # NullBox)
              => lastRun.usedBox = ScanTable[lastRun.frame]

\* a chain run that found no skin-tone region, had no lastKnownFacePosition and
\* returned the scanned region, which is not the center box
C4_ScanRegionReturned ==
    /\ ChainRan
    /\ lastRun.chain.skinToneFace = NullBox
    /\ lastRun.lastPos = NullBox
    /\ lastRun.chain.scanFace # NullBox
    /\ lastRun.usedBox = lastRun.chain.scanFace
    /\ lastRun.usedBox # getDefaultCenterFace
    /\ faceDetectionCanvas.box = lastRun.usedBox

\* C5 as stated: once a strategy returns a non-null box no later strategy is
\* executed
C5_LaterStrategiesNotExecuted ==
    ChainRan =>
        /\ lastRun.chain.skinToneFace # NullBox
             => ~lastRun.chain.motionRan /\ ~lastRun.chain.scanRan
        /\ lastRun.chain.motionFace # NullBox => ~lastRun.chain.scanRan

\* C5 as the code has it: a strategy that returned a non-null box does not stop
\* the later ones from being executed (only a throw does); their results are
\* not used
C5_LaterStrategiesExecutedNotUsed ==
    ChainRan =>
        /\ lastRun.chain.skinToneFace # NullBox => lastRun.chain.motionRan
        /\ (lastRun.chain.skinToneFace # NullBox /\ ~lastRun.chain.threw)
             => lastRun.chain.scanRan /\ lastRun.usedBox = lastRun.chain.skinToneFace
        /\ lastRun.chain.motionFace # NullBox => lastRun.chain.scanRan
        /\ (lastRun.chain.skinToneFace = NullBox /\ lastRun.chain.motionFace # NullBox)
             => lastRun.usedBox = lastRun.chain.motionFace

\* a chain run in which skin tone found a box, motion tracking found another
\* and the scan a third: all three were executed and the first is used
C5_AllExecutedAfterSuccess ==
    /\ ChainRan
    /\ lastRun.chain.skinToneFace # NullBox
    /\ lastRun.chain.motionRan /\ lastRun.chain.motionFace # NullBox
    /\ lastRun.chain.scanRan /\ lastRun.chain.scanFace # NullBox
    /\ lastRun.chain.motionFace # lastRun.chain.skinToneFace
    /\ lastRun.usedBox = lastRun.chain.skinToneFace

(***************************************************************************)
(* The detector path of processFaceDetection                               *)
(***************************************************************************)
\* the detector's first result, normalized and clamped to the frame, has
\* positive width and height
ClampedBoxPositive(outcome) ==
    /\ outcome.kind = "faces"
    /\ NormalizeFace(outcome.face) # NullBox
    /\ ClampToFrame(NormalizeFace(outcome.face)).width > 0
    /\ ClampToFrame(NormalizeFace(outcome.face)).height > 0

\* C6: when the detector returns a result whose normalized, frame-clamped box
\* has positive width and height, that box is the detection (it goes to
\* updateFaceHistory and applyFaceFilter) and detectFaceManually does not run
C6_DetectorBoxUsedWithoutHeuristics ==
    [][\A i \in DOMAIN pending, outcome \in DetectOutcomes, fail \in PixelFailures :
          (ClampedBoxPositive(outcome) /\ DetectDone(i, outcome, fail))
            => /\ lastRun'.manualRuns = 0
               /\ lastRun'.chain = NoChain
               /\ lastRun'.usedBox = ClampToFrame(NormalizeFace(outcome.face))
               /\ histCall'.box = lastRun'.usedBox
               /\ faceDetectionCanvas'.box = lastRun'.usedBox
               /\ faceDetectionCanvas'.base = pending[i].base.id]_vars

\* a run that used the detector's box, one that had to be clamped to the frame
C6_DetectorBoxUsed ==
    /\ lastRun.detector = "usable"
    /\ lastRun.manualRuns = 0
    /\ lastRun.usedBox = ClampToFrame(NormalizeFace(MLFace("boundingBox", 260, 41, 100, 80)))
    /\ lastRun.usedBox # NormalizeFace(MLFace("boundingBox", 260, 41, 100, 80))
    /\ faceDetectionCanvas.box = lastRun.usedBox
    /\ faceDetectionCanvas.composited

\* C7: when the detector is not configured, throws, returns no result or
\* returns a result without a usable box, processFaceDetection runs the
\* heuristic chain exactly once for that frame and produces an output
C7_UnavailableDetectorRunsChainOnce ==
    (/\ lastRun.origin \in {"capture", "filter"}
     /\ \/ ~lastRun.configured
        \/ lastRun.detector \in {"throw", "empty", "nousable"})
      => /\ lastRun.manualRuns = 1
         /\ lastRun.displayed
         /\ faceDetectionCanvas.base = lastRun.base

\* C8: updateFaceHistory is called on the box that is finally used before the
\* box is handed to applyFaceFilter, on every path, the error paths included
C8_HistoryUpdatedWithUsedBox ==
    lastRun.usedBox # NullBox => lastRun.updated

(***************************************************************************)
(* FaceProcessor.updateFaceHistory on its own                              *)
(***************************************************************************)
\* the calls of updateFaceHistory one behaviour of SpecHistory may contain
MaxUpdates == 7

\* the boxes handed to updateFaceHistory: null, boxes at the bounds of the
\* valid sizes, and boxes just outside them
HistoryBoxes ==
    {NullBox, Box(0, 0, 30, 30), Box(60, 20, 100, 100), Box(40, 30, 80, 60),
     Box(5, 5, 29, 50), Box(5, 5, 50, 101), Box(0, 10, 20, 20)}

\* faceProcessor.updateFaceHistory(box)
HistoryUpdate(box) ==
    /\ nEvents < MaxUpdates
    /\ nEvents' = nEvents + 1
    /\ \E upd \in {updateFaceHistory(faceTrackingHistory, lastKnownFacePosition, box)} :
         /\ faceTrackingHistory' = upd.history
         /\ lastKnownFacePosition' = upd.lastPos
         /\ histCall' = [by |-> "history", box |-> box, capturing |-> isCapturing,
                         shifted |-> upd.shifted]
    /\ UNCHANGED <<cameraVars, faceMesh, setupPhase, captureVars, pending, trackPending,
                   faceDetectionCanvas, lastRun>>
    /\ UNCHANGED call

NextHistory == \E box \in HistoryBoxes : HistoryUpdate(box)

SpecHistory == Init /\ [][NextHistory]_vars

\* width and height of the box are both within 30..100
SizeWithinBounds(box) ==
    /\ box # NullBox
    /\ minFaceSize <= box.width /\ box.width <= maxFaceSize
    /\ minFaceSize <= box.height /\ box.height <= maxFaceSize

\* C9: faceTrackingHistory holds at most 5 boxes, the most recent last, and
\* when a sixth box is accepted the oldest one is the one evicted
C9_HistoryBoundedOldestEvicted ==
    [][\A box \in HistoryBoxes :
          HistoryUpdate(box) =>
            /\ Len(faceTrackingHistory') <= 5
            /\ (SizeWithinBounds(box) /\ Len(faceTrackingHistory) < 5)
                 => faceTrackingHistory' = faceTrackingHistory \o <<box>>
            /\ (SizeWithinBounds(box) /\ Len(faceTrackingHistory) = 5)
                 => /\ faceTrackingHistory' =
                          SubSeq(faceTrackingHistory, 2, 5) \o <<box>>
                    /\ histCall'.shifted = faceTrackingHistory[1]]_vars

\* a sixth box was accepted: the history holds five boxes, the accepted one
\* last, and the box evicted is no longer among them
C9_SixthBoxAccepted ==
    /\ histCall.by = "history"
    /\ histCall.shifted # NullBox
    /\ Len(faceTrackingHistory) = 5
    /\ faceTrackingHistory[5] = histCall.box
    /\ \A i \in 1..5 : faceTrackingHistory[i] # histCall.shifted

\* C10: updateFaceHistory with a box that passes isValidFaceSize appends it to
\* the history and makes it lastKnownFacePosition; with a null box or a box
\* that fails isValidFaceSize it leaves both unchanged
C10_ValidAppendedInvalidIgnored ==
    [][\A box \in HistoryBoxes :
          HistoryUpdate(box) =>
            IF SizeWithinBounds(box)
            THEN /\ Len(faceTrackingHistory') >= 1
                 /\ faceTrackingHistory'[Len(faceTrackingHistory')] = box
                 /\ lastKnownFacePosition' = box
            ELSE /\ faceTrackingHistory' = faceTrackingHistory
                 /\ lastKnownFacePosition' = lastKnownFacePosition]_vars

\* a box that fails isValidFaceSize was handed in after a valid one: the
\* history and lastKnownFacePosition still hold the valid one
C10_InvalidBoxIgnored ==
    /\ histCall.by = "history"
    /\ histCall.box # NullBox /\ ~isValidFaceSize(histCall.box)
    /\ Len(faceTrackingHistory) = 1
    /\ lastKnownFacePosition = faceTrackingHistory[1]
    /\ lastKnownFacePosition # histCall.box
    /\ nEvents = 2

(***************************************************************************)
(* The boxes handed to updateFaceHistory and applyFaceFilter               *)
(***************************************************************************)
\* the box lies inside the frame and has positive width and height
InsideFrame(box) ==
    /\ box.x + box.width <= ImageWidth
    /\ box.y + box.height <= ImageHeight
    /\ box.width > 0
    /\ box.height > 0

ChainBoxInsideFrame ==
    (ChainRan /\ lastRun.usedBox # NullBox) => InsideFrame(lastRun.usedBox)

(***************************************************************************)
(* FaceProcessor.detectFaceManually on its own                             *)
(***************************************************************************)
\* a variant of detectFaceManuallyFrom that returns null for a missing image
detectFaceManuallyFromNull(haveFaceImage, haveCapturedImage, havePixels, frame, lastPos, fail) ==
    IF ~haveFaceImage \/ ~haveCapturedImage
    THEN NoChain
    ELSE IF ~havePixels
    THEN TryStrategies([skin |-> NullBox, motion |-> NullBox, scan |-> NullBox], "none")
    ELSE detectFaceManually(frame, lastPos, fail)

\* detectFaceManually(faceImage, capturedImage) from its first statement: with
\* a missing image it returns the center box at once, without a strategy,
\* updateFaceHistory or applyFaceFilter.  havePixels: capturedImage.pixels is
\* set; without it each strategy returns null at its first test, before any
\* loadPixels
detectFaceManuallyFrom(haveFaceImage, haveCapturedImage, havePixels, frame, lastPos, fail) ==
    IF ~haveFaceImage \/ ~haveCapturedImage
    THEN [NoChain EXCEPT !.bestFace = getDefaultCenterFace]
    ELSE IF ~havePixels
    THEN TryStrategies([skin |-> NullBox, motion |-> NullBox, scan |-> NullBox], "none")
    ELSE detectFaceManually(frame, lastPos, fail)

\* one call faceProcessor.detectFaceManually(faceImage, capturedImage), the
\* images being null or not, on any frame
ManualCall(haveFaceImage, haveCapturedImage, havePixels, frame, fail) ==
    /\ nEvents < MaxEvents + 1
    /\ nEvents' = nEvents + 1
    /\ \E chain \in {detectFaceManuallyFrom(haveFaceImage, haveCapturedImage, havePixels,
                                            frame, lastKnownFacePosition, fail)} :
         \E upd \in {IF chain.updated
                     THEN updateFaceHistory(faceTrackingHistory, lastKnownFacePosition,
                                            chain.bestFace)
                     ELSE [history |-> faceTrackingHistory,
                           lastPos |-> lastKnownFacePosition, shifted |-> NullBox]} :
           /\ faceTrackingHistory' = upd.history
           /\ lastKnownFacePosition' = upd.lastPos
           /\ histCall' = IF chain.updated
                          THEN [by |-> "manual", box |-> chain.bestFace,
                                capturing |-> isCapturing, shifted |-> upd.shifted]
                          ELSE histCall
           /\ lastRun' = [NoRun EXCEPT !.origin = "manual",
                                       !.detector =
                                           IF ~haveFaceImage \/ ~haveCapturedImage
                                           THEN "invalid"
                                           ELSE IF havePixels THEN "valid" ELSE "nopixels",
                                       !.manualRuns = 1, !.chain = chain,
                                       !.updated = chain.updated,
                                       !.usedBox = chain.applied,
                                       !.frame = frame,
                                       !.lastPos = lastKnownFacePosition]
    /\ UNCHANGED <<cameraVars, faceMesh, setupPhase, captureVars, pending, trackPending,
                   faceDetectionCanvas>>
    /\ UNCHANGED call

NextManual ==
    \E haveFaceImage \in BOOLEAN, haveCapturedImage \in BOOLEAN, havePixels \in BOOLEAN,
       frame \in DOMAIN Frames, fail \in PixelFailures :
         ManualCall(haveFaceImage, haveCapturedImage, havePixels, frame, fail)

SpecManual == Init /\ [][NextManual]_vars

\* the box covering the central 50% x 50% of the 160x120 frame
CenterBox == Box(40, 30, 80, 60)

\* C12: detectFaceManually returns a non-null box on every path; with a missing
\* image, with all three strategies returning null and with a strategy
\* throwing the box is the center box, the central 50% x 50% of the frame
C12_ChainAlwaysReturnsBox ==
    ChainRan =>
        /\ lastRun.chain.bestFace # NullBox
        /\ (\/ lastRun.detector = "invalid"
            \/ lastRun.chain.threw
            \/ /\ lastRun.chain.skinToneFace = NullBox
               /\ lastRun.chain.motionFace = NullBox
               /\ lastRun.chain.scanFace = NullBox)
             => lastRun.chain.bestFace = CenterBox

\* a call in which a strategy threw and the center box was returned and
\* applied, after a call in which all three strategies returned null and the
\* center box went into the history
C12_CenterBoxAfterThrow ==
    /\ ChainRan
    /\ lastRun.chain.threw
    /\ lastRun.chain.bestFace = CenterBox
    /\ lastRun.chain.applied = CenterBox
    /\ nEvents = 3
    /\ faceTrackingHistory = <<CenterBox>>

(***************************************************************************)
(* The annotation drawn by applyFaceFilter                                 *)
(***************************************************************************)
\* the latest run of the detection stage ended with the center fallback: the
\* chain ran and either threw or found no box with any strategy
UsedCenterFallback ==
    /\ ChainRan
    /\ \/ lastRun.chain.threw
       \/ /\ lastRun.chain.skinToneFace = NullBox
          /\ lastRun.chain.motionFace = NullBox
          /\ lastRun.chain.scanFace = NullBox

\* C13: the frame displayed carries the label 'Center Fallback' when the box
\* used is the center fallback and 'Smart Detection' when the box comes from
\* the detector or from a heuristic strategy
C13_LabelDistinguishesSource ==
    (lastRun.displayed /\ faceDetectionCanvas.base = lastRun.base) =>
        faceDetectionCanvas.label = IF UsedCenterFallback THEN "Center Fallback"
                                                          ELSE "Smart Detection"

(***************************************************************************)
(* FaceProcessor.applyFaceFilter on its own                                *)
(***************************************************************************)
\* the face boxes handed to applyFaceFilter: the center box, a box in the
\* upper left corner, a box reaching the lower right corner, a box of one
\* pixel and a box the detector path leaves with a negative width
FilterBoxes ==
    {Box(40, 30, 80, 60), Box(0, 0, 80, 80), Box(120, 90, 40, 30), Box(159, 119, 1, 1),
     Box(170, 30, -10, 40)}

\* what can happen inside one call: nothing fails, or one step does
FilterEnvs ==
    {EnvOk,
     FilterEnv("nograph", "ok", "ok", "ok", "ok", TRUE),
     FilterEnv("ok", "nograph", "ok", "ok", "ok", TRUE),
     FilterEnv("ok", "throw", "ok", "ok", "ok", TRUE),
     FilterEnv("ok", "ok", "nograph", "ok", "ok", TRUE),
     FilterEnv("ok", "ok", "throw", "ok", "ok", TRUE),
     FilterEnv("ok", "ok", "ok", "nograph", "ok", TRUE),
     FilterEnv("ok", "ok", "ok", "ok", "throw", TRUE),
     FilterEnv("ok", "ok", "ok", "ok", "ok", FALSE)}

\* one call faceProcessor.applyFaceFilter(faceImage, capturedImage, faceBbox)
\* with currentFaceFilter = filter, faceImage being a copy of capturedImage
ApplyFilter(frame, faceBbox, filter, env) ==
    /\ nEvents < MaxEvents
    /\ nEvents' = nEvents + 1
    /\ capturedImage' = [id |-> capturedImage.id + 1, frame |-> frame]
    /\ currentFaceFilter' = filter
    /\ faceDetectionCanvas' =
          applyFaceFilterIn(capturedImage', capturedImage', faceBbox, filter, env)
    /\ UNCHANGED <<cameraVars, faceMesh, setupPhase, isCapturing, captureTimers,
                   pipeline, voiceVars, lastKnownFacePosition, faceTrackingHistory,
                   pending, trackPending, lastRun, histCall>>
    /\ UNCHANGED call

NextFilter ==
    \E frame \in CameraFrames, faceBbox \in FilterBoxes, filter \in 0..4,
       env \in FilterEnvs : ApplyFilter(frame, faceBbox, filter, env)

SpecFilter == Init /\ [][NextFilter]_vars

\* the transforms the spec maps the filter ids to
MappedTransforms(filter) ==
    CASE filter = 0 -> <<>>
      [] filter = 1 -> <<[name |-> "grayscaleWithBrightness", arg |-> 120]>>
      [] filter = 2 -> <<[name |-> "blur", arg |-> 25]>>
      [] filter = 3 -> <<[name |-> "toHSV", arg |-> 0]>>
      [] filter = 4 -> <<[name |-> "grayscaleWithBrightness", arg |-> 120],
                         [name |-> "pixelate", arg |-> 12]>>

\* the raster written into the face frame holds the pixels of the face box of
\* the captured frame after the mapped transforms of the filter
PastedIsMapped(faceBbox, filter) ==
    /\ faceDetectionCanvas'.pasted.raster.from = "capturedImage"
    /\ faceDetectionCanvas'.pasted.raster.region = ExtractBox(faceBbox)
    /\ faceDetectionCanvas'.pasted.raster.ops = MappedTransforms(filter)
    /\ faceDetectionCanvas'.pasted.at = faceBbox

\* C14 as stated: for each filter id the sub-raster composited into the target
\* frame is the mapped transform (0 identity, 1 grayscale with brightness,
\* 2 blur with radius 25, 3 HSV, 4 grayscale then pixelation) of the sub-raster
\* extracted from the captured frame
C14_CompositedIsMappedTransform ==
    [][\A frame \in CameraFrames, faceBbox \in FilterBoxes, filter \in 0..4 :
          (ApplyFilter(frame, faceBbox, filter, EnvOk) /\ ExtractSucceeds(faceBbox))
            => PastedIsMapped(faceBbox, filter)]_vars

\* C14 as the code has it: for the filters 0, 1, 3 and 4 the sub-raster
\* composited is the mapped transform of the sub-raster extracted from the
\* captured frame; for filter 2 it is the face box of the target frame itself,
\* blurred with radius 30, the blur with radius 25 that processFace made of
\* the extracted sub-raster being left unused
C14_CompositedBlurIsOfTargetFrame ==
    [][\A frame \in CameraFrames, faceBbox \in FilterBoxes, filter \in 0..4 :
          (ApplyFilter(frame, faceBbox, filter, EnvOk) /\ ExtractSucceeds(faceBbox))
            => IF filter = 2
               THEN /\ faceDetectionCanvas'.pasted.raster.from = "faceImage"
                    /\ faceDetectionCanvas'.pasted.raster.region = faceBbox
                    /\ faceDetectionCanvas'.pasted.raster.ops =
                          <<[name |-> "blur", arg |-> 30]>>
                    /\ faceDetectionCanvas'.pasted.at = faceBbox
               ELSE PastedIsMapped(faceBbox, filter)]_vars

\* the blur filter was applied to the center box: the raster written into the
\* face frame is the box of the face frame blurred with radius 30
C14_BlurComposited ==
    /\ faceDetectionCanvas.filter = 2
    /\ faceDetectionCanvas.box = Box(40, 30, 80, 60)
    /\ faceDetectionCanvas.composited
    /\ faceDetectionCanvas.pasted.raster.from = "faceImage"
    /\ faceDetectionCanvas.pasted.raster.ops = <<[name |-> "blur", arg |-> 30]>>

\* a transform that processFace runs for this filter fails in env
TransformFails(filter, env) ==
    \/ filter \in {1, 2, 3} /\ env.first # "ok"
    \/ filter = 4 /\ (env.first # "ok" \/ env.second # "ok")

\* C15: for every filter id, when the transform fails (it throws or cannot make
\* its output raster) processFace returns the unmodified face sub-raster, not
\* null, and applyFaceFilter composites it
C15_FailedTransformReturnsFaceRegion ==
    [][\A frame \in CameraFrames, faceBbox \in FilterBoxes, filter \in 0..4,
          env \in FilterEnvs :
          (/\ ApplyFilter(frame, faceBbox, filter, env)
           /\ ExtractSucceeds(faceBbox) /\ env.extract = "ok" /\ env.havePixels
           /\ TransformFails(filter, env))
            => /\ faceDetectionCanvas'.processedFace =
                     Raster("faceRegion", <<>>, "capturedImage", ExtractBox(faceBbox))
               /\ faceDetectionCanvas'.processedFace # NullRaster]_vars

\* the same for the transforms that fail by throwing: the catch block of
\* processFace returns the face sub-raster
FailedByThrowReturnsFaceRegion ==
    [][\A frame \in CameraFrames, faceBbox \in FilterBoxes, filter \in 0..4,
          env \in FilterEnvs :
          (/\ ApplyFilter(frame, faceBbox, filter, env)
           /\ ExtractSucceeds(faceBbox) /\ env.extract = "ok" /\ env.havePixels
           /\ env.second # "nograph"
           /\ TransformFails(filter, env)
           /\ ~(filter = 1 /\ env.first = "nograph"))
            => faceDetectionCanvas'.processedFace =
                  Raster("faceRegion", <<>>, "capturedImage", ExtractBox(faceBbox))]_vars

(***************************************************************************)
(* processImages                                                           *)
(***************************************************************************)
\* C16: a raster allocation failure in one transform step of processImages
\* does not abort the pipeline: every later step, face detection included,
\* still runs for that capture
C16_AllocationFailureDoesNotAbort ==
    pipeline.failedAt # "none" =>
        /\ \A j \in DOMAIN PipelineSteps :
              j > StepIndex(pipeline.failedAt) => PipelineSteps[j] \in pipeline.displayed
        /\ pipeline.originalRepeat
        /\ pipeline.faceDetection

\* the same for the grayscale step alone, whose transform reports the failure
\* by returning null
GrayscaleFailureDoesNotAbort ==
    pipeline.failedAt = "grayscale" =>
        /\ pipeline.displayed =
              {"channels", "channelThreshold", "colorSpace", "colorSpaceThreshold"}
        /\ pipeline.originalRepeat
        /\ pipeline.faceDetection

(***************************************************************************)
(* currentFaceFilter                                                       *)
(***************************************************************************)
\* the step is a filter-change event that carries a value of 0..4
FilterChangeEvent ==
    \E allocOk \in BOOLEAN, fail \in PixelFailures :
        \/ \E f \in ButtonFilters : FilterButton(f, allocOk, fail)
        \/ \E keyNum \in 0..4 : keyPressed(keyNum, allocOk, fail)
        \/ \E filterValue \in 0..4 : VoiceFaceFilter(filterValue, allocOk, fail)

\* the step is a key press or a voice command that carries a value outside
\* 0..4
RejectedFilterEvent ==
    \E allocOk \in BOOLEAN, fail \in PixelFailures :
        \E v \in DigitInputs \ (0..4) :
            keyPressed(v, allocOk, fail) \/ VoiceFaceFilter(v, allocOk, fail)

----------------------------------------------------------------------------
(* VoiceController's threshold commands: adjustThresholdValue,              *)
(* setThresholdValue and resetAllThresholds write a slider's value and      *)
(* dispatch its 'input' event, whose handler re-runs the processing of the  *)
(* captured frame when there is one.                                        *)

\* the number of threshold commands one behaviour executes
MaxCommands == 3

\* the adjustments of the 'increase' / 'decrease' commands
Adjustments == {10, -10}

\* the numbers a 'set <channel> threshold to <digits>' command can carry
SpokenValues == {0, 5, 250, 256, 300}

\* the slider's 'input' handler: updateProcessing() when a frame is captured
updateProcessing(failAt, allocOk, fail) ==
    IF capturedImage = NoImage
    THEN UNCHANGED <<pipeline, detectionVars>>
    ELSE /\ pipeline' = processImages(capturedImage, failAt)
         /\ IF pipeline'.faceDetection
            THEN processFaceDetection("slider", currentFaceFilter, allocOk, fail)
            ELSE UNCHANGED detectionVars

thresholdFrame ==
    UNCHANGED <<cameraVars, faceMesh, setupPhase, capturedImage, isCapturing,
                currentFaceFilter, captureTimers, trackPending, call>>

adjustThresholdValueUnclamped(channel, adjustment, failAt, allocOk, fail) ==
    /\ nEvents < MaxCommands
    /\ nEvents' = nEvents + 1
    /\ thresholds' = [thresholds EXCEPT ![channel] = thresholds[channel] + adjustment]
    /\ voiceFeedback' = "success"
    /\ updateProcessing(failAt, allocOk, fail)
    /\ thresholdFrame

adjustThresholdValue(channel, adjustment, failAt, allocOk, fail) ==
    /\ nEvents < MaxCommands
    /\ nEvents' = nEvents + 1
    /\ thresholds' = [thresholds EXCEPT
                        ![channel] = Max(0, Min(255, thresholds[channel] + adjustment))]
    /\ voiceFeedback' = "success"
    /\ updateProcessing(failAt, allocOk, fail)
    /\ thresholdFrame

setThresholdValue(channel, value, failAt, allocOk, fail) ==
    /\ nEvents < MaxCommands
    /\ nEvents' = nEvents + 1
    /\ IF value >= 0 /\ value <= 255
       THEN /\ thresholds' = [thresholds EXCEPT ![channel] = value]
            /\ voiceFeedback' = "success"
            /\ updateProcessing(failAt, allocOk, fail)
       ELSE /\ voiceFeedback' = "error"
            /\ UNCHANGED <<thresholds, pipeline, detectionVars>>
    /\ thresholdFrame

\* five calls of setThresholdValue(channel, 128), each dispatching 'input'
resetAllThresholds(failAt, allocOk, fail) ==
    /\ nEvents < MaxCommands
    /\ nEvents' = nEvents + 1
    /\ thresholds' = [channel \in Channels |-> DefaultThreshold]
    /\ voiceFeedback' = "success"
    /\ updateProcessing(failAt, allocOk, fail)
    /\ thresholdFrame

NextThresholds ==
    \/ \E channel \in Channels, adjustment \in Adjustments :
           adjustThresholdValue(channel, adjustment, "none", TRUE, "none")
    \/ \E channel \in Channels, value \in SpokenValues :
           setThresholdValue(channel, value, "none", TRUE, "none")
    \/ resetAllThresholds("none", TRUE, "none")

SpecThresholds == Init /\ [][NextThresholds]_vars

ThresholdsInRange == \A channel \in Channels : thresholds[channel] \in 0..255

\* some command changed nothing but reported an error
RejectedSet == thresholds' = thresholds /\ voiceFeedback' = "error"

\* a command changed exactly one slider, to a value in range that is the
\* clamped sum of the old value and an adjustment, or a spoken value
OneSliderWritten ==
    \E channel \in Channels :
        /\ \A other \in Channels \ {channel} : thresholds'[other] = thresholds[other]
        /\ \/ \E adjustment \in Adjustments :
                  thresholds'[channel] = Max(0, Min(255, thresholds[channel] + adjustment))
           \/ thresholds'[channel] \in SpokenValues \cap (0..255)

\* C18: after any sequence of adjustThreshold, setThreshold and
\* resetThresholds commands every threshold is in [0,255]: a command either
\* writes one slider with the clamped sum or an in-range spoken value, or
\* resets all sliders to 128, or (the spoken value being outside [0,255])
\* leaves every threshold unchanged and reports an error.
C18_ThresholdsStayInRange ==
    /\ ThresholdsInRange
    /\ [][ /\ ThresholdsInRange'
           /\ \/ OneSliderWritten /\ voiceFeedback' = "success"
              \/ thresholds' = [channel \in Channels |-> DefaultThreshold]
                   /\ voiceFeedback' = "success"
              \/ RejectedSet ]_vars

\* the red slider was clamped at 255 (no spoken value is 255) and a set
\* command with a value outside [0,255] was then rejected
C18_ClampedThenRejected ==
    /\ thresholds["red"] = 255
    /\ voiceFeedback = "error"

----------------------------------------------------------------------------
(* Stopping the camera and the periodic tracking                            *)

\* a step that stops the camera leaves no tracking interval scheduled
StopClearsInterval == (cameraActive /\ ~cameraActive') => ~faceTrackingInterval'

\* while the camera stays stopped no tracking detection is started and no
\* tracking result reaches updateFaceHistory
NoTrackingWhileStopped ==
    (~cameraActive /\ ~cameraActive') =>
        /\ trackPending' <= trackPending
        /\ (histCall' # histCall => histCall'.by # "tracking")
        /\ (trackPending' < trackPending =>
               /\ faceTrackingHistory' = faceTrackingHistory
               /\ lastKnownFacePosition' = lastKnownFacePosition)

\* the 2 s timer of toggleCamera, firing after the camera was stopped again,
\* schedules no tracking interval
LateTimerStartsNothing ==
    (~cameraActive /\ ~cameraActive' /\ startTimers' < startTimers) =>
        ~faceTrackingInterval'

\* C19: once the camera has been stopped, by toggleCamera or by the voice
\* command, no periodic tracking tick is scheduled any more and no tracking
\* detection or history update happens until the camera is started again,
\* also when the camera is switched off within the 2 s before tracking starts.
C19_StoppedCameraStopsTracking ==
    [][StopClearsInterval /\ NoTrackingWhileStopped /\ LateTimerStartsNothing]_vars

----------------------------------------------------------------------------
(* Transforms and their input rasters                                       *)

\* a transform that returned a raster returned a new one, not its input
ReturnsNewRaster(result, input) == result \in {NullRaster, Thrown} \/ result.id # input.id

\* the transforms that processFace runs for a filter on faceRegion, when the
\* rasters they ask for come out as env says, each return a new raster
TransformsReturnNewRasters(faceRegion, filter, env) ==
    CASE filter = 1 ->
           ReturnsNewRaster(createGrayscaleWithBrightness(faceRegion, env.first), faceRegion)
      [] filter = 2 -> ReturnsNewRaster(blurImage(faceRegion, 25, env.first), faceRegion)
      [] filter = 3 -> ReturnsNewRaster(convertToHSV(faceRegion, env.first), faceRegion)
      [] filter = 4 ->
           /\ ReturnsNewRaster(createGrayscaleWithBrightness(faceRegion, env.first),
                               faceRegion)
           /\ \/ createGrayscaleWithBrightness(faceRegion, env.first)
                    \in {NullRaster, Thrown}
              \/ ReturnsNewRaster(
                    pixelateImage(createGrayscaleWithBrightness(faceRegion, env.first),
                                  env.second),
                    createGrayscaleWithBrightness(faceRegion, env.first))
      [] OTHER -> TRUE

\* C20: no transform or face-filter operation mutates its input raster: a call
\* of applyFaceFilter leaves capturedImage holding the captured frame, every
\* transform it runs returns a raster distinct from its input, and what is
\* composited is written into the face-detection frame only.
C20_TransformsLeaveInputs ==
    [][\A frame \in CameraFrames, faceBbox \in FilterBoxes, filter \in 0..4,
          env \in FilterEnvs :
          (/\ ApplyFilter(frame, faceBbox, filter, env)
           /\ ExtractSucceeds(faceBbox) /\ env.extract = "ok" /\ env.havePixels)
            => /\ capturedImage'.frame = frame
               /\ faceDetectionCanvas'.base = capturedImage'.id
               /\ TransformsReturnNewRasters(
                     Raster("faceRegion", <<>>, "capturedImage", ExtractBox(faceBbox)),
                     filter, env)]_vars

\* the same without the rasters that cannot be made: a transform that gets
\* its output raster returns it, and capturedImage is left alone
TransformsWithRastersLeaveInputs ==
    [][\A frame \in CameraFrames, faceBbox \in FilterBoxes, filter \in 0..4,
          env \in {e \in FilterEnvs : e.first # "nograph" /\ e.second # "nograph"} :
          (/\ ApplyFilter(frame, faceBbox, filter, env)
           /\ ExtractSucceeds(faceBbox) /\ env.extract = "ok" /\ env.havePixels)
            => /\ capturedImage'.frame = frame
               /\ faceDetectionCanvas'.base = capturedImage'.id
               /\ TransformsReturnNewRasters(
                     Raster("faceRegion", <<>>, "capturedImage", ExtractBox(faceBbox)),
                     filter, env)]_vars

----------------------------------------------------------------------------
(* FaceProcessor.isValidFaceSize on its own                                 *)

\* a call of a function on its own leaves the program's state alone
callFrame ==
    UNCHANGED <<cameraVars, faceMesh, setupPhase, captureVars, detectionVars,
                trackPending, nEvents>>

\* widths and heights at, next to and far from the bounds
SizeSamples == {0, 1, 29, 30, 31, 65, 99, 100, 101, 160, 200}

SizeBoxes == {NullBox} \cup {Box(0, 0, w, h) : w \in SizeSamples, h \in SizeSamples}

\* faceProcessor.isValidFaceSize(face)
ValidSizeCall(face) ==
    /\ call' = [fn |-> "isValidFaceSize", face |-> face, result |-> isValidFaceSize(face)]
    /\ callFrame

NextValidSize == \E face \in SizeBoxes : ValidSizeCall(face)

SpecValidSize == Init /\ [][NextValidSize]_vars

\* C21: isValidFaceSize(box) is true exactly when width and height are both
\* in [minFaceSize, maxFaceSize], 30..100 with the bounds included, and false
\* for every other box and for null.
C21_ValidSizeExactlyWithinBounds ==
    call.fn = "isValidFaceSize" =>
        /\ minFaceSize = 30 /\ maxFaceSize = 100
        /\ call.result \in BOOLEAN
        /\ call.result <=> (/\ call.face # NullBox
                            /\ call.face.width \in 30..100
                            /\ call.face.height \in 30..100)

\* a box at both bounds was accepted
C21_BoundsAccepted ==
    /\ call.fn = "isValidFaceSize"
    /\ call.face = Box(0, 0, 30, 100)
    /\ call.result

----------------------------------------------------------------------------
(* ImageProcessor.createGrayscaleWithBrightness, pixel by pixel             *)

\* n / d rounded to the nearest integer, a tie to the even one, as a store
\* into the pixels array (a Uint8ClampedArray) rounds
RoundHalfEven(n, d) ==
    IF 2 * (n % d) > d \/ (2 * (n % d) = d /\ (n \div d) % 2 = 1)
    THEN n \div d + 1
    ELSE n \div d

\* what a store of n / d into the pixels array leaves there
StoreByte(n, d) == Max(0, Min(255, RoundHalfEven(n, d)))

\* the values are kept as numerators over GrayUnit:
\* 1.2 * (0.299 r + 0.587 g + 0.114 b) = 12 * (299 r + 587 g + 114 b) / 10000
GrayUnit == 10000

\* a variant of GrayscalePixel without Math.min(255, ...)
GrayscalePixelUnclamped(r, g, b) ==
    With(12 * (299 * r + 587 * g + 114 * b),
         LAMBDA clampedGray :
            [written |-> <<clampedGray, clampedGray, clampedGray, 255 * GrayUnit>>,
             pixels |-> <<StoreByte(clampedGray, GrayUnit), StoreByte(clampedGray, GrayUnit),
                          StoreByte(clampedGray, GrayUnit), 255>>])

\* the body of the loop of createGrayscaleWithBrightness for one pixel: the
\* four values assigned to output.pixels[i .. i + 3] and the bytes stored
GrayscalePixel(r, g, b) ==
    With(Min(255 * GrayUnit, 12 * (299 * r + 587 * g + 114 * b)),
         LAMBDA clampedGray :
            [written |-> <<clampedGray, clampedGray, clampedGray, 255 * GrayUnit>>,
             pixels |-> <<StoreByte(clampedGray, GrayUnit), StoreByte(clampedGray, GrayUnit),
                          StoreByte(clampedGray, GrayUnit), 255>>])

\* channel values at and next to the ends of the range and around the
\* luminance 212.5, above which 1.2 times the luminance exceeds 255
ChannelSamples == {0, 1, 100, 128, 200, 212, 213, 230, 254, 255}

\* createGrayscaleWithBrightness on an image of one pixel (r, g, b)
GrayscaleCall(r, g, b) ==
    /\ call' = [fn |-> "createGrayscaleWithBrightness", r |-> r, g |-> g, b |-> b,
                result |-> GrayscalePixel(r, g, b)]
    /\ callFrame

NextGrayscale ==
    \E r \in ChannelSamples, g \in ChannelSamples, b \in ChannelSamples :
        GrayscaleCall(r, g, b)

SpecGrayscale == Init /\ [][NextGrayscale]_vars

\* C22: for every input pixel (r, g, b) of [0,255]^3,
\* createGrayscaleWithBrightness writes the same value
\* min(255, 1.2 * (0.299 r + 0.587 g + 0.114 b)) to the three colour channels
\* and 255 to alpha, so every output channel is in [0,255]; (255, 255, 255)
\* gives (255, 255, 255).
C22_GrayscaleClampedOnAllChannels ==
    call.fn = "createGrayscaleWithBrightness" =>
        /\ \A c \in 1..3 :
              /\ call.result.written[c] = call.result.written[1]
              /\ call.result.pixels[c] = call.result.pixels[1]
        /\ 10 * call.result.written[1] =
              Min(10 * 255 * GrayUnit,
                  (12 * (GrayUnit \div 1000))
                    * (299 * call.r + 587 * call.g + 114 * call.b))
        /\ call.result.written[4] = 255 * GrayUnit /\ call.result.pixels[4] = 255
        /\ \A c \in 1..4 :
              /\ call.result.written[c] >= 0
              /\ call.result.written[c] <= 255 * GrayUnit
              /\ call.result.pixels[c] \in 0..255
        /\ (call.r = 255 /\ call.g = 255 /\ call.b = 255)
              => call.result.pixels = <<255, 255, 255, 255>>

\* a pixel whose brightened luminance, 1.2 * 230 = 276, exceeds 255 came out
\* as 255 on the three channels
C22_BrightPixelClamped ==
    /\ call.fn = "createGrayscaleWithBrightness"
    /\ call.r = 230 /\ call.g = 230 /\ call.b = 230
    /\ call.result.pixels = <<255, 255, 255, 255>>

----------------------------------------------------------------------------
(* ImageProcessor.pixelateImage, pixel by pixel                             *)

blockSize == 12

\* a raster with its pixels in row order, each <<r, g, b, a>>
PixelRaster(w, h, pixels) == [width |-> w, height |-> h, pixels |-> pixels]

\* the indices (from 1) of the pixels of the block that holds pixel p: the
\* block starts at a multiple of blockSize and ends at the raster's edge
BlockOf(img, p) ==
    {q \in 1..(img.width * img.height) :
        /\ ((q - 1) % img.width) \div blockSize = ((p - 1) % img.width) \div blockSize
        /\ ((q - 1) \div img.width) \div blockSize
              = ((p - 1) \div img.width) \div blockSize}

\* totalIntensity: the sum of img.pixels[idx], the first channel, over a block
RECURSIVE totalIntensity(_, _)
totalIntensity(img, block) ==
    IF block = {} THEN 0
    ELSE With(CHOOSE q \in block : TRUE,
              LAMBDA q : img.pixels[q][1] + totalIntensity(img, block \ {q}))

\* a variant of PixelateBlocks that drops the fraction of the mean
PixelateBlocksTruncated(img) ==
    PixelRaster(img.width, img.height,
        [p \in 1..(img.width * img.height) |->
            With(totalIntensity(img, BlockOf(img, p)) \div Cardinality(BlockOf(img, p)),
                 LAMBDA averageIntensity :
                    <<averageIntensity, averageIntensity, averageIntensity, 255>>)])

\* the loops of pixelateImage: every pixel of a block gets
\* Math.round(totalIntensity / pixelCount) on three channels and alpha 255
PixelateBlocks(img) ==
    PixelRaster(img.width, img.height,
        [p \in 1..(img.width * img.height) |->
            With(RoundDiv(totalIntensity(img, BlockOf(img, p)),
                          Cardinality(BlockOf(img, p))),
                 LAMBDA averageIntensity :
                    <<averageIntensity, averageIntensity, averageIntensity, 255>>)])

GrayPixel(v) == <<v, v, v, 255>>

IntensitySamples == {0, 100, 255}

\* the rasters handed to pixelateImage: 2 x 2 rasters, one clipped block, and
\* 13 x 2 and 2 x 13 rasters, a block followed by a clipped one, the first
\* block holding the values a and b, the second c
PixelateInputs ==
    {PixelRaster(2, 2, <<GrayPixel(a), GrayPixel(b), GrayPixel(c), GrayPixel(d)>>) :
        a \in IntensitySamples, b \in IntensitySamples, c \in IntensitySamples,
        d \in IntensitySamples}
    \cup
    {PixelRaster(13, 2,
        [p \in 1..26 |-> GrayPixel(IF (p - 1) % 13 < 3 THEN a
                                   ELSE IF (p - 1) % 13 < 12 THEN b ELSE c)]) :
        a \in IntensitySamples, b \in IntensitySamples, c \in IntensitySamples}
    \cup
    {PixelRaster(2, 13,
        [p \in 1..26 |-> GrayPixel(IF (p - 1) \div 2 < 3 THEN a
                                   ELSE IF (p - 1) \div 2 < 12 THEN b ELSE c)]) :
        a \in IntensitySamples, b \in IntensitySamples, c \in IntensitySamples}

\* imageProcessor.pixelateImage(img), the output raster being available
PixelateCall(img) ==
    /\ call' = [fn |-> "pixelateImage", img |-> img, result |-> PixelateBlocks(img)]
    /\ callFrame

NextPixelate == \E img \in PixelateInputs : PixelateCall(img)

SpecPixelate == Init /\ [][NextPixelate]_vars

\* m is total / count rounded to the nearest integer
IsRoundedMean(m, total, count) ==
    2 * count * m - count <= 2 * total /\ 2 * total < 2 * count * m + count

----------------------------------------------------------------------------
(* FaceProcessor.detectBySkinTone on its own                                *)

\* the frame with no skin pixel
BackgroundImage == [c \in 1..(GridCols * GridRows) |-> 1]

\* img with cell c repainted: skin colour for background and back
Repainted(img, c) == [img EXCEPT ![c] = 3 - img[c]]

\* faceProcessor.detectBySkinTone(img) on the background frame first, then on
\* the frame of the call before with cell c repainted
SkinToneCall(c) ==
    /\ \E img \in {IF call.fn = "detectBySkinTone" THEN Repainted(call.img, c)
                                                    ELSE BackgroundImage} :
          call' = [fn |-> "detectBySkinTone", img |-> img,
                   result |-> detectBySkinTone(img)]
    /\ callFrame

NextSkinTone == \E c \in 1..(GridCols * GridRows) : SkinToneCall(c)

SpecSkinTone == Init /\ [][NextSkinTone]_vars

\* the candidate regions of img whose skin-pixel ratio is above 0.12
RegionsAboveRatio(img) ==
    {i \in DOMAIN SkinRegions :
        100 * SkinPixels(img, SkinRegion(i).x, SkinRegion(i).y, SkinRegion(i).width,
                         SkinRegion(i).height)
          > 12 * TotalPixels(SkinRegion(i).x, SkinRegion(i).y, SkinRegion(i).width,
                             SkinRegion(i).height)}

\* C24: detectBySkinTone returns null when none of the five candidate regions
\* has a skin-pixel ratio above 0.12 and otherwise returns a region whose
\* ratio is above 0.12 (the regions of the 160 x 120 frame all pass
\* isValidFaceSize); when one region alone is above 0.12 the result is that
\* region, so raising one region's ratio above 0.12 while the others stay
\* below turns the result from null into that region.
C24_SkinToneReturnsRegionAboveRatio ==
    call.fn = "detectBySkinTone" =>
        \E above \in {RegionsAboveRatio(call.img)} :
            /\ \A i \in DOMAIN SkinRegions : isValidFaceSize(SkinRegion(i))
            /\ above = {} => call.result = NullBox
            /\ above # {} => \E i \in above : call.result = SkinRegion(i)

\* the frame whose top-left cell alone is skin: the ratio of the first region
\* is above 0.12, that of the third is positive and below, and the call
\* returned the first region
C24_OneRegionAboveRatio ==
    /\ call.fn = "detectBySkinTone"
    /\ call.img = Repainted(BackgroundImage, 1)
    /\ RegionsAboveRatio(call.img) = {1}
    /\ SkinPixels(call.img, SkinRegion(3).x, SkinRegion(3).y, SkinRegion(3).width,
                  SkinRegion(3).height) > 0
    /\ call.result = SkinRegion(1)

----------------------------------------------------------------------------
(* FaceProcessor.trackByMotion on its own                                   *)

\* values of lastKnownFacePosition: null, and boxes of the sizes
\* updateFaceHistory keeps, at the frame's corner, in its middle and against
\* its right and lower edge
MotionPositions ==
    {NullBox}
    \cup {Box(bx, by, s.w, s.h) :
            bx \in {0, 10, 40, 60, 100}, by \in {0, 20, 45, 60},
            s \in {[w |-> 30, h |-> 30], [w |-> 60, h |-> 60], [w |-> 80, h |-> 60],
                   [w |-> 100, h |-> 100]}}

\* trackByMotion on each frame from each of these positions, evaluated once
MotionResults ==
    [frame \in DOMAIN Frames |->
        [lastPos \in MotionPositions |-> trackByMotion(Frames[frame], lastPos)]]

\* faceProcessor.trackByMotion(img) with lastKnownFacePosition = lastPos
MotionCall(frame, lastPos) ==
    /\ call' = [fn |-> "trackByMotion", frame |-> frame, lastPos |-> lastPos,
                result |-> MotionResults[frame][lastPos]]
    /\ callFrame

NextMotion ==
    \E frame \in DOMAIN Frames, lastPos \in MotionPositions : MotionCall(frame, lastPos)

SpecMotion == Init /\ [][NextMotion]_vars

\* C25: trackByMotion returns null whenever lastKnownFacePosition is unset;
\* any box it returns has the width and height of lastKnownFacePosition, lies
\* fully inside the frame, has a skin density above 0.10 and is displaced from
\* the last position by at most 25 pixels on each axis, at one of the offsets
\* -25, -17, ..., 23 of the 8-pixel steps (or at the frame's edge 0).
C25_TrackedBoxNearLastPosition ==
    call.fn = "trackByMotion" =>
        /\ call.lastPos = NullBox => call.result = NullBox
        /\ call.result # NullBox =>
              /\ call.result.width = call.lastPos.width
              /\ call.result.height = call.lastPos.height
              /\ call.result.x >= 0 /\ call.result.y >= 0
              /\ call.result.x + call.result.width <= 160
              /\ call.result.y + call.result.height <= 120
              /\ 10 * SkinPixels(Frames[call.frame], call.result.x, call.result.y,
                                 call.result.width, call.result.height)
                   > call.result.width * call.result.height
              /\ Abs(call.result.x - call.lastPos.x) <= 25
              /\ Abs(call.result.y - call.lastPos.y) <= 25
              /\ \E i \in 0..6, j \in 0..6 :
                    /\ call.result.x = Max(0, call.lastPos.x - 25 + 8 * i)
                    /\ call.result.y = Max(0, call.lastPos.y - 25 + 8 * j)

\* a box was found away from the last position, which itself has no skin
\* pixel
C25_TrackedBoxMoved ==
    /\ call.fn = "trackByMotion"
    /\ call.result # NullBox
    /\ call.result.x # call.lastPos.x
    /\ SkinPixels(Frames[call.frame], call.lastPos.x, call.lastPos.y,
                  call.lastPos.width, call.lastPos.height) = 0

----------------------------------------------------------------------------
(* The tracking history in every reachable state                            *)

\* C26: in every reachable state each box of faceTrackingHistory, and
\* lastKnownFacePosition when it is set, passes isValidFaceSize and lies fully
\* inside the 160 x 120 frame; lastKnownFacePosition is null exactly when the
\* history is empty and is otherwise the last element of the history.
C26_HistoryBoxesValidAndInside ==
    /\ \A i \in DOMAIN faceTrackingHistory :
          /\ faceTrackingHistory[i] # NullBox
          /\ faceTrackingHistory[i].width \in 30..100
          /\ faceTrackingHistory[i].height \in 30..100
          /\ faceTrackingHistory[i].x >= 0 /\ faceTrackingHistory[i].y >= 0
          /\ faceTrackingHistory[i].x + faceTrackingHistory[i].width <= 160
          /\ faceTrackingHistory[i].y + faceTrackingHistory[i].height <= 120
    /\ (lastKnownFacePosition = NullBox) <=> (faceTrackingHistory = <<>>)
    /\ faceTrackingHistory # <<>>
          => lastKnownFacePosition = faceTrackingHistory[Len(faceTrackingHistory)]

\* the history holds two boxes, the later one a detector box that reached
\* beyond the right edge and was cut to end at it
C26_ClampedDetectorBoxInHistory ==
    /\ Len(faceTrackingHistory) = 2
    /\ lastKnownFacePosition = faceTrackingHistory[2]
    /\ lastKnownFacePosition = ClampToFrame(NormalizeFace(MLFace("boundingBox", 260, 41, 100, 80)))
    /\ lastKnownFacePosition # NormalizeFace(MLFace("boundingBox", 260, 41, 100, 80))
    /\ lastKnownFacePosition.x + lastKnownFacePosition.width = ImageWidth

----------------------------------------------------------------------------
(* The frames of one face-detection output                                  *)

\* C27: for every face-detection frame that is displayed, the face sub-raster
\* composited into it was extracted from the captured frame the face frame
\* was copied from, also when a new capture or a filter change happens while
\* the detector's answer to an earlier request is pending.
C27_CompositedFromOwnFrame ==
    faceDetectionCanvas.composited => faceDetectionCanvas.src = faceDetectionCanvas.base

----------------------------------------------------------------------------
(* The 100 ms timer of captureImage always fires                            *)

\* a timeout that was set is run by the browser's event loop
SpecTimers ==
    /\ Spec
    /\ WF_vars(\E failAt \in PipelineFailures, allocOk \in BOOLEAN, fail \in PixelFailures :
                  CaptureTimer(failAt, allocOk, fail))

\* C28: after every capture that sets isCapturing to true, isCapturing becomes
\* false again once the 100 ms processing timer fires, whatever further
\* captures, filter changes and tracking ticks come in between, and also
\* when the processing of the frame reports an error.
C28_CapturingEventuallyCleared == isCapturing ~> ~isCapturing

\* the timer of a capture has fired, the processing of that frame ended early
\* with an error, and isCapturing is false
C28_ClearedAfterProcessingError ==
    /\ ~isCapturing
    /\ captureTimers = 0
    /\ capturedImage # NoImage
    /\ pipeline.image = capturedImage.id
    /\ pipeline.failedAt = "channels"
    /\ ~pipeline.faceDetection

\* ---------------------------------------------------------------------------
\* The periodic tracking interval (script.js 1747-1772)
\* ---------------------------------------------------------------------------

\* a call of startPeriodicFaceTracking while the interval is set schedules
\* nothing
StartWhileSetDoesNothing ==
    (faceTrackingInterval /\ faceTrackingInterval') => liveIntervals' = liveIntervals

\* stopPeriodicFaceTracking clears the interval it resets
StopClearsTheInterval ==
    (faceTrackingInterval /\ ~faceTrackingInterval') => liveIntervals' = 0

\* C29: at most one periodic tracking interval is scheduled at any time, and it
\* is the one faceTrackingInterval holds: startPeriodicFaceTracking schedules
\* nothing while faceTrackingInterval is set, and stopPeriodicFaceTracking
\* clears the interval and resets faceTrackingInterval, for every sequence of
\* start, stop and camera-toggle events
C29_AtMostOneTrackingInterval ==
    /\ liveIntervals = 0
    /\ ~faceTrackingInterval
    /\ [][/\ liveIntervals' = (IF faceTrackingInterval' THEN 1 ELSE 0)
          /\ StartWhileSetDoesNothing
          /\ StopClearsTheInterval]_vars

\* startPeriodicFaceTracking has run, two events later the camera is active
\* and one interval is scheduled, the one faceTrackingInterval holds
C29_IntervalSetAgainAfterStop ==
    /\ faceTrackingInterval
    /\ liveIntervals = 1
    /\ cameraActive
    /\ videoState = "ready"
    /\ setupPhase = "done"
    /\ startTimers = 0
    /\ nEvents = 2

(***************************************************************************)
(* The region scan inside the heuristic chain                              *)
(***************************************************************************)
\* the score of window b on a raster without a skin pixel and without colour
\* variation: the position, size and aspect terms of scoreFaceRegion
ContentFreeScore(b) == scoreFaceRegion(Frames[EmptyGraphics], b.x, b.y, b.width, b.height)

\* the latest call of detectFaceManually had both images, the captured one
\* with its pixels, and reached scanForFaceRegions
ScanRanOnFrame == ChainRan /\ lastRun.detector = "valid" /\ lastRun.chain.scanRan

\* C30: on a 160x120 frame scanForFaceRegions returns a box whatever the
\* pixels are: the window it returns on a raster without skin and variation
\* is accepted on its position, size and aspect terms alone, and scores no
\* less on the frame scanned; so detectFaceManually selects the center
\* fallback only when an image is missing or has no pixels, or when a strategy
\* throws
C30_ScanAlwaysFindsBox ==
    /\ ScanRanOnFrame =>
         /\ lastRun.chain.scanFace # NullBox
         /\ ScanTable[EmptyGraphics] # NullBox
         /\ ScanAccepts(ContentFreeScore(ScanTable[EmptyGraphics]))
         /\ \E b \in {ScanTable[EmptyGraphics]} :
              scoreFaceRegion(Frames[lastRun.frame], b.x, b.y, b.width, b.height)
                >= ContentFreeScore(b)
    /\ UsedCenterFallback => (lastRun.detector # "valid" \/ lastRun.chain.threw)

\* a call on the background frame with no earlier position: the skin-tone and
\* motion strategies return null and the scanned window is the box used
C30_ScanBoxOnBackground ==
    /\ ScanRanOnFrame
    /\ lastRun.frame = 1
    /\ lastRun.chain.skinToneFace = NullBox
    /\ lastRun.chain.motionFace = NullBox
    /\ lastRun.chain.scanFace # NullBox
    /\ lastRun.chain.bestFace = lastRun.chain.scanFace
    /\ ~UsedCenterFallback

=============================================================================
